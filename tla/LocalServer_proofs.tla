------------------------- MODULE LocalServer_proofs -------------------------
(***************************************************************************)
(* The local server keeps its types and its promises, for every number of  *)
(* users, workflows and events, and any number of awaits that raise and of *)
(* interactions Slack delivers twice.                                      *)
(***************************************************************************)
EXTENDS LocalServer, Workflow_proofs, FiniteSetTheorems

(***************************************************************************)
(* The inductive strengthening of TypeOK.                                  *)
(*  - The object under a key has that key, and is never taken out.         *)
(*  - A task is where its event was acquired, and what it is about to      *)
(*    touch is there.                                                      *)
(*  - The message a workflow shows last was posted for it, by a task that  *)
(*    has ended since.                                                     *)
(***************************************************************************)
IdInv == \A w \in WorkflowIds : store[w] # None => store[w].id = w

EventInv ==
  \A d \in Events :
    /\ event[d] # None => EventOf(event[d])
    /\ d \in acquired \/ fresh[d] > 0 => event[d] # None

Buttons(m, w) == message[m] # None /\ message[m].wf = w /\ message[m].live

Ended(m) == m \in Events /\ task[m].pc = "ended" /\ message[m] # None

TaskInv(d) ==
  /\ d \notin acquired => task[d].pc = "none"
  /\ Suspended(d) => task[d].wf \in WorkflowIds /\ store[task[d].wf] # None
  /\ Awaits(d, "agent") => task[d].step \in ContinueSteps
  /\ Awaits(d, "posting") => task[d].step \in WaitSteps
  /\ Awaits(d, "posted") => Buttons(d, task[d].wf)
  /\ Awaits(d, "relating") => task[d].issue \in 1 .. Len(issues)
  /\ Awaits(d, "notifying") /\ task[d].ts # None => Ended(task[d].ts)

LastInv ==
  \A w \in WorkflowIds :
    store[w] # None /\ store[w].messageTs # None =>
      /\ Ended(store[w].messageTs)
      /\ message[store[w].messageTs].wf = w

TypeInv ==
  /\ TypeOK
  /\ IdInv
  /\ EventInv
  /\ \A d \in Events : TaskInv(d)
  /\ LastInv

-----------------------------------------------------------------------------
(* Updates of one task and of one object.                                  *)

Others(d) == \A c \in Events : c # d => task'[c] = task[c]

LEMMA AwaitType ==
  ASSUME TypeOK, NEW d \in Events, NEW t \in Task, Await(d, t)
  PROVE  task' \in [Events -> Task] /\ task'[d] = t /\ Others(d)
  BY DEF Await, TypeOK, Others

LEMMA StatesOfTask ==
  /\ NotStarted \in Task
  /\ \A pc \in Pcs : [NotStarted EXCEPT !.pc = pc] \in Task
  /\ \A w \in WorkflowIds : Raised(w) \in Task
  /\ \A pc \in Pcs, inst \in Instance :
       /\ Awaiting(pc, inst) \in Task
       /\ Awaiting(pc, inst).pc = pc
       /\ Awaiting(pc, inst).wf = inst.id
       /\ Awaiting(pc, inst).step = inst.step
<1>1. NotStarted \in Task
  BY DEF NotStarted, Task, Pcs, Relations, MaybeEvent
<1>2. ASSUME NEW pc \in Pcs PROVE [NotStarted EXCEPT !.pc = pc] \in Task
  BY <1>1 DEF Task
<1>3. ASSUME NEW w \in WorkflowIds PROVE Raised(w) \in Task
  BY DEF NotStarted, Raised, Task, Pcs, Relations, MaybeEvent
<1>4. ASSUME NEW pc \in Pcs, NEW inst \in Instance
      PROVE  /\ Awaiting(pc, inst) \in Task
             /\ Awaiting(pc, inst).pc = pc
             /\ Awaiting(pc, inst).wf = inst.id
             /\ Awaiting(pc, inst).step = inst.step
  BY DEF NotStarted, Awaiting, Task, Relations, MaybeEvent, Instance
<1> QED
  BY <1>1, <1>2, <1>3, <1>4

LEMMA PutType ==
  ASSUME TypeOK, NEW inst \in Instance, Put(inst)
  PROVE  /\ store' \in [WorkflowIds -> Instance \union {None}]
         /\ inst.id \in WorkflowIds
         /\ inst # None
         /\ store'[inst.id] = inst
         /\ \A w \in WorkflowIds : w # inst.id => store'[w] = store[w]
  BY NoneIsNoRecord DEF Put, TypeOK, Instance

(***************************************************************************)
(* _execute_until_wait from an object to the next await, seen from         *)
(* outside: what becomes of the object, the sessions and the task.         *)
(***************************************************************************)
WithStatus(inst, status) == [inst EXCEPT !.status = status]

Freed(ses, k) == [ses EXCEPT ![k] = None]

Failed(d, inst, ses) ==
  /\ Put(WithStatus(inst, "FAILED"))
  /\ session' = Freed(ses, inst.key)
  /\ task'[d].pc = "ended"

Suspends(d, inst, ses) ==
  /\ Put(inst)
  /\ session' = ses
  /\ task'[d].wf = inst.id
  /\ task'[d].step = inst.step
  /\ \/ task'[d].pc = "agent" /\ inst.step \in ContinueSteps
     \/ task'[d].pc = "posting" /\ inst.step \in WaitSteps /\ Ready(inst)
     \/ task'[d].pc = "filing" /\ inst.step = "create_github_issue"

GivesUp(d, inst, ses) ==
  /\ ~ Ready(inst)
  /\ Put(inst)
  /\ session' = ses
  /\ task'[d].pc = "raised" /\ task'[d].wf = inst.id

Stops(d, inst) ==
  /\ Put(WithStatus(inst, "COMPLETED"))
  /\ task'[d].pc = "notifying"
  /\ task'[d].wf = inst.id
  /\ task'[d].ts = inst.messageTs

Outcome(d, inst, ses) ==
  \/ Failed(d, inst, ses)
  \/ Suspends(d, inst, ses)
  \/ GivesUp(d, inst, ses)
  \/ Stops(d, inst) /\ session' = ses /\ inst.step = "reject_end"

LEMMA StatusType ==
  ASSUME NEW inst \in Instance, NEW status \in Status
  PROVE  /\ WithStatus(inst, status) \in Instance
         /\ WithStatus(inst, status).status = status
         /\ WithStatus(inst, status).id = inst.id
         /\ WithStatus(inst, status).key = inst.key
         /\ WithStatus(inst, status).messageTs = inst.messageTs
         /\ WithStatus(inst, status).draft = inst.draft
  BY DEF WithStatus, Instance

LEMMA StopOutcome ==
  ASSUME TypeOK, NEW d \in Events, NEW inst \in Instance, Stop(d, inst)
  PROVE  task' \in [Events -> Task] /\ Others(d) /\ Stops(d, inst)
<1> DEFINE t == [Awaiting("notifying", inst) EXCEPT !.ts = inst.messageTs]
<1>1. t \in Task /\ t.pc = "notifying" /\ t.wf = inst.id
      /\ t.ts = inst.messageTs
  BY DEF Awaiting, NotStarted, Task, Pcs, Relations, MaybeEvent, Instance
<1>2. Await(d, t) /\ Put(WithStatus(inst, "COMPLETED"))
  BY DEF Stop, WithStatus
<1> HIDE DEF t
<1> QED
  BY <1>1, <1>2, AwaitType DEF Stops

LEMMA ProceedOutcome ==
  ASSUME TypeOK, NEW d \in Events, NEW inst \in Instance, NEW ses,
         Proceed(d, inst, ses)
  PROVE  task' \in [Events -> Task] /\ Others(d) /\ Outcome(d, inst, ses)
<1>1. CASE Fail(d, inst, ses)
  <2>1. Await(d, [NotStarted EXCEPT !.pc = "ended"])
    BY <1>1 DEF Fail, End
  <2>2. [NotStarted EXCEPT !.pc = "ended"] \in Task
        /\ [NotStarted EXCEPT !.pc = "ended"].pc = "ended"
    BY StatesOfTask DEF Pcs, NotStarted
  <2>3. task' \in [Events -> Task] /\ Others(d) /\ task'[d].pc = "ended"
    BY <2>1, <2>2, AwaitType
  <2>4. QED
    BY <1>1, <2>3 DEF Fail, Outcome, Failed, WithStatus, Freed
<1>2. CASE RunAgent(d, inst) /\ session' = ses
  <2>1. Await(d, Awaiting("agent", inst)) /\ "agent" \in Pcs
    BY <1>2 DEF RunAgent, Pcs
  <2>2. QED
    BY <1>2, <2>1, StatesOfTask, AwaitType DEF RunAgent, Outcome, Suspends
<1>3. CASE PostMessage(d, inst) /\ session' = ses
  <2> DEFINE t == [Awaiting("posting", inst) EXCEPT !.draft = inst.draft]
  <2>1. t \in Task /\ t.pc = "posting" /\ t.wf = inst.id /\ t.step = inst.step
    BY DEF Awaiting, NotStarted, Task, Pcs, Relations, MaybeEvent, Instance
  <2>2. Await(d, OrRaised(t, inst)) /\ Put(inst) /\ inst.step \in WaitSteps
    BY <1>3 DEF PostMessage
  <2> HIDE DEF t
  <2>3. CASE Ready(inst)
    <3>1. Await(d, t)
      BY <2>2, <2>3 DEF OrRaised
    <3>2. QED
      BY <1>3, <2>1, <2>2, <2>3, <3>1, AwaitType DEF Outcome, Suspends
  <2>4. CASE ~ Ready(inst)
    <3>1. Await(d, Raised(inst.id)) /\ inst.id \in WorkflowIds
      BY <2>2, <2>4 DEF OrRaised, Instance
    <3>2. Raised(inst.id) \in Task /\ Raised(inst.id).pc = "raised"
          /\ Raised(inst.id).wf = inst.id
      BY <3>1, StatesOfTask DEF Raised, NotStarted
    <3>3. QED
      BY <1>3, <2>2, <2>4, <3>1, <3>2, AwaitType DEF Outcome, GivesUp
  <2>5. QED
    BY <2>3, <2>4
<1>4. CASE PostIssue(d, inst) /\ session' = ses
  <2> DEFINE t == [Awaiting("filing", inst) EXCEPT
                     !.draft = inst.draft, !.relation = RelationOf(inst)]
  <2>1. t \in Task /\ t.pc = "filing" /\ t.wf = inst.id /\ t.step = inst.step
    BY DEF Awaiting, NotStarted, Task, Pcs, Relations, MaybeEvent, Instance,
       RelationOf, RelationFor
  <2>2. Await(d, OrRaised(t, inst)) /\ Put(inst)
        /\ inst.step = "create_github_issue"
    BY <1>4 DEF PostIssue
  <2> HIDE DEF t
  <2>3. CASE Ready(inst)
    <3>1. Await(d, t)
      BY <2>2, <2>3 DEF OrRaised
    <3>2. QED
      BY <1>4, <2>1, <2>2, <2>3, <3>1, AwaitType DEF Outcome, Suspends
  <2>4. CASE ~ Ready(inst)
    <3>1. Await(d, Raised(inst.id)) /\ inst.id \in WorkflowIds
      BY <2>2, <2>4 DEF OrRaised, Instance
    <3>2. Raised(inst.id) \in Task /\ Raised(inst.id).pc = "raised"
          /\ Raised(inst.id).wf = inst.id
      BY <3>1, StatesOfTask DEF Raised, NotStarted
    <3>3. QED
      BY <1>4, <2>2, <2>4, <3>1, <3>2, AwaitType DEF Outcome, GivesUp
  <2>5. QED
    BY <2>3, <2>4
<1>5. CASE inst.step = "reject_end" /\ Stop(d, inst) /\ session' = ses
  BY <1>5, StopOutcome DEF Outcome
<1> QED
  BY <1>1, <1>2, <1>3, <1>4, <1>5 DEF Proceed

-----------------------------------------------------------------------------
(***************************************************************************)
(* What the tasks hand to _execute_until_wait: a new object and a session  *)
(* for it, or the stored object with its key and its last message, RUNNING *)
(* or as some task left it.  It is at create_github_issue only for an      *)
(* accept, and then its draft is that of the stored object.                *)
(***************************************************************************)
New(inst, ses) ==
  /\ store[inst.id] = None
  /\ inst.messageTs = None
  /\ inst.status = "RUNNING"
  /\ ses = [session EXCEPT ![inst.key] = inst.id]

Old(inst, ses) ==
  /\ store[inst.id] \in Instance
  /\ store[inst.id].key = inst.key
  /\ store[inst.id].messageTs = inst.messageTs
  /\ store[inst.id].draft # None => inst.draft # None
  /\ inst.status \in {"RUNNING", store[inst.id].status}
  /\ ses = session

Continues(d, inst, ses) ==
  /\ Proceed(d, inst, ses)
  /\ task[d].pc \in {"none", "agent"}
  /\ task[d].pc = "agent" => task[d].wf = inst.id
  /\ New(inst, ses) \/ Old(inst, ses)
  /\ inst.step = "create_github_issue" =>
       event[d].type = "accept" /\ event[d].wf = inst.id
  /\ ~ Ready(inst) =>
       /\ event[d] # None /\ event[d].type = "accept"
       /\ event[d].wf = inst.id
       /\ store[inst.id].draft = None
  /\ event[d] # None
  /\ acquired' = acquired \union {d}
  /\ fresh' \in [Events -> Nat]
  /\ \A c \in Events : fresh'[c] > 0 => fresh[c] > 0
  /\ UNCHANGED <<event, modal, message, issues, budget>>

LEMMA PopType ==
  ASSUME TypeOK, NEW d \in Events, fresh[d] > 0, Pop(d)
  PROVE  /\ fresh' \in [Events -> Nat]
         /\ \A c \in Events : fresh'[c] > 0 => fresh[c] > 0
  BY DEF TypeOK, Pop

LEMMA StartContinues ==
  ASSUME TypeInv, NEW d \in Events, StartWorkflow(d)
  PROVE  \E inst \in Instance : \E ses : Continues(d, inst, ses)
<1>1. /\ fresh[d] > 0 /\ Pop(d) /\ d \notin acquired
      /\ acquired' = acquired \union {d}
      /\ UNCHANGED <<event, modal, message, issues, budget>>
      /\ event[d].type = "pipeline_start"
  BY DEF StartWorkflow, Begins, TryAcquire
<1>2. /\ event[d] # None /\ event[d] \in Event /\ event[d].key \in Keys
      /\ task[d].pc = "none"
  BY <1>1 DEF TypeInv, TypeOK, EventInv, EventOf, TaskInv
<1>3. PICK w \in WorkflowIds :
        /\ store[w] = None
        /\ Proceed(d, NewInstance(w, event[d]),
                   [session EXCEPT ![event[d].key] = w])
  BY DEF StartWorkflow
<1> DEFINE inst == NewInstance(w, event[d])
           ses  == [session EXCEPT ![inst.key] = inst.id]
<1>4. /\ inst \in Instance /\ inst.id = w /\ inst.key = event[d].key
      /\ inst.messageTs = None /\ inst.status = "RUNNING"
      /\ inst.step = FIRST_STEP
  BY <1>2, NewInstanceType
<1>5. Proceed(d, inst, ses)
  BY <1>3, <1>4
<1> HIDE DEF inst, ses
<1>6. Ready(inst) /\ inst.step # "create_github_issue"
  BY <1>4 DEF Ready, FIRST_STEP
<1>7. New(inst, ses)
  BY <1>3, <1>4 DEF New, ses
<1>8. Continues(d, inst, ses)
  BY <1>1, <1>2, <1>5, <1>6, <1>7, PopType DEF Continues, TypeInv
<1> QED
  BY <1>4, <1>8

LEMMA ResumeContinues ==
  ASSUME TypeInv, NEW d \in Events, Resume(d)
  PROVE  \E inst \in Instance : \E ses : Continues(d, inst, ses)
<1> DEFINE e    == event[d]
           old  == store[e.wf]
           inst == Resumed(old, d, e)
<1>1. /\ fresh[d] > 0 /\ Pop(d) /\ d \notin acquired
      /\ acquired' = acquired \union {d}
      /\ UNCHANGED <<event, modal, message, issues, budget>>
      /\ e.type # "pipeline_start"
      /\ old # None /\ e.type \in ResumeActions
      /\ Proceed(d, inst, session)
  BY DEF Resume, Begins, TryAcquire, Resumable, HasResume
<1>2. e # None /\ e \in Event /\ e.wf \in WorkflowIds /\ task[d].pc = "none"
  BY <1>1 DEF TypeInv, TypeOK, EventInv, EventOf, TaskInv
<1>3. old \in Instance /\ old.id = e.wf
  BY <1>1, <1>2 DEF TypeInv, TypeOK, IdInv
<1> HIDE DEF old
<1>4. /\ inst \in Instance /\ inst.id = old.id /\ inst.key = old.key
      /\ inst.messageTs = old.messageTs /\ inst.draft = old.draft
      /\ inst.status = "RUNNING" /\ inst.step = RESUME_MAP[e.type]
  BY <1>1, <1>2, <1>3, ResumedType
<1> HIDE DEF inst
<1>5. /\ inst.step = "create_github_issue" => e.type = "accept"
      /\ inst.step \notin WaitSteps
  BY <1>1, <1>4 DEF RESUME_MAP, WaitSteps, ResumeActions, Decision
<1>6. ~ Ready(inst) => e.type = "accept" /\ old.draft = None
  BY <1>4, <1>5 DEF Ready, WaitSteps
<1>7. Old(inst, session)
  BY <1>3, <1>4 DEF Old, old
<1>8. store[inst.id] = old
  BY <1>3, <1>4 DEF old
<1>9. Continues(d, inst, session)
  BY <1>1, <1>2, <1>3, <1>4, <1>5, <1>6, <1>7, <1>8, PopType
  DEF Continues, TypeInv
<1> QED
  BY <1>4, <1>9

LEMMA AnswerContinues ==
  ASSUME TypeInv, NEW d \in Events, AgentAnswers(d)
  PROVE  \E inst \in Instance : \E ses : Continues(d, inst, ses)
<1>1. /\ task[d].pc = "agent" /\ task[d].step \in ContinueSteps
      /\ d \in acquired /\ event[d] # None
      /\ Obj(d) \in Instance /\ Obj(d).id = task[d].wf
  BY DEF AgentAnswers, Awaits, TypeInv, TypeOK, TaskInv, EventInv, Suspended,
     Obj, IdInv
<1>2. PICK finding \in Findings :
        Proceed(d, Answered(task[d].step, Obj(d), d, finding), session)
  BY DEF AgentAnswers, Answered
<1> DEFINE inst == Answered(task[d].step, Obj(d), d, finding)
<1>3. /\ inst \in Instance /\ inst.id = Obj(d).id /\ inst.key = Obj(d).key
      /\ inst.status = Obj(d).status /\ inst.messageTs = Obj(d).messageTs
      /\ inst.step \in ContinueSteps \union WaitSteps
      /\ Obj(d).draft # None => inst.draft # None
      /\ Ready(inst)
  BY <1>1, AnsweredType, LocalAssumption
<1>4. Proceed(d, inst, session)
  BY <1>2
<1> HIDE DEF inst
<1>5. Old(inst, session)
  BY <1>1, <1>3 DEF Old, Obj
<1>6. inst.step # "create_github_issue"
  BY <1>3 DEF ContinueSteps, WaitSteps
<1>7. /\ acquired' = acquired /\ fresh' = fresh
      /\ UNCHANGED <<event, modal, message, issues, budget>>
  BY DEF AgentAnswers, users
<1>8. Continues(d, inst, session)
  BY <1>1, <1>3, <1>4, <1>5, <1>6, <1>7 DEF Continues, TypeInv, TypeOK
<1> QED
  BY <1>3, <1>8

(***************************************************************************)
(* The object a task leaves to the others.                                 *)
(***************************************************************************)
LEMMA ContinuesKeepsTypeInv ==
  ASSUME TypeInv, NEW d \in Events, NEW inst \in Instance, NEW ses,
         Continues(d, inst, ses)
  PROVE  TypeInv'
<1>1. /\ task' \in [Events -> Task] /\ Others(d) /\ Outcome(d, inst, ses)
  BY ProceedOutcome DEF Continues, TypeInv
<1>2. PICK status \in Status :
        /\ Put(WithStatus(inst, status))
        /\ \/ task'[d].pc \in {"ended", "raised"}
           \/ /\ task'[d].wf = inst.id
              /\ \/ task'[d].pc = "agent" /\ task'[d].step \in ContinueSteps
                 \/ task'[d].pc = "posting" /\ task'[d].step \in WaitSteps
                 \/ task'[d].pc = "filing"
                 \/ task'[d].pc = "notifying" /\ task'[d].ts = inst.messageTs
  <2>1. WithStatus(inst, inst.status) = inst /\ inst.status \in Status
    BY DEF WithStatus, Instance
  <2>2. QED
    BY <1>1, <2>1 DEF Outcome, Failed, Suspends, GivesUp, Stops, Status
<1> DEFINE new == WithStatus(inst, status)
<1>3. /\ new \in Instance /\ new.id = inst.id
      /\ new.messageTs = inst.messageTs
  BY StatusType
<1> HIDE DEF new
<1>4. /\ store' \in [WorkflowIds -> Instance \union {None}]
      /\ inst.id \in WorkflowIds /\ new # None
      /\ store'[inst.id] = new
      /\ \A w \in WorkflowIds : w # inst.id => store'[w] = store[w]
  BY <1>2, <1>3, PutType DEF new, TypeInv
<1>5. session' \in [Keys -> WorkflowIds \union {None}]
  <2>1. ses \in [Keys -> WorkflowIds \union {None}] /\ inst.key \in Keys
    BY <1>4 DEF Continues, New, Old, TypeInv, TypeOK, Instance
  <2>2. session' = ses \/ session' = Freed(ses, inst.key)
    BY <1>1 DEF Outcome, Failed, Suspends, GivesUp
  <2>3. QED
    BY <2>1, <2>2 DEF Freed
<1>6. TypeOK'
  BY <1>1, <1>4, <1>5 DEF TypeInv, TypeOK, Continues
<1>7. IdInv' /\ EventInv'
  BY <1>3, <1>4 DEF TypeInv, IdInv, EventInv, Continues
<1>8. \A m \in Events : Ended(m) => Ended(m)'
  BY <1>1 DEF Ended, Others, Continues
<1>9. LastInv'
  <2>1. inst.messageTs # None =>
          Ended(inst.messageTs) /\ message[inst.messageTs].wf = inst.id
    BY <1>4, NoneIsNoRecord DEF Continues, New, Old, TypeInv, LastInv
  <2>2. ASSUME NEW w \in WorkflowIds, store'[w] # None,
               store'[w].messageTs # None
        PROVE  /\ Ended(store[w].messageTs)'
               /\ message'[store'[w].messageTs].wf = w
    <3>1. CASE w = inst.id
      BY <1>3, <1>4, <1>8, <2>1, <2>2, <3>1 DEF Ended, Continues
    <3>2. CASE w # inst.id
      BY <1>4, <1>8, <2>2, <3>2 DEF TypeInv, LastInv, Ended, Continues
    <3>3. QED
      BY <3>1, <3>2
  <2>3. QED
    BY <2>2 DEF LastInv
<1>10. TaskInv(d)'
  <2>1. d \in acquired'
    BY DEF Continues
  <2>2. Awaits(d, "notifying")' /\ task'[d].ts # None => Ended(task[d].ts)'
    <3>1. SUFFICES ASSUME task'[d].pc = "notifying", task'[d].ts # None
                   PROVE  Ended(inst.messageTs)' /\ task'[d].ts = inst.messageTs
      BY DEF Awaits, Ended
    <3>2. task'[d].ts = inst.messageTs
      BY <1>2, <3>1
    <3>3. inst.messageTs # None /\ store'[inst.id] # None
          /\ store'[inst.id].messageTs = inst.messageTs
      BY <1>3, <1>4, <3>1, <3>2
    <3>4. QED
      BY <1>4, <1>9, <3>2, <3>3 DEF LastInv, Ended
  <2>3. QED
    BY <1>2, <1>4, <2>1, <2>2 DEF TaskInv, Awaits, Suspended
<1>11. ASSUME NEW c \in Events, c # d PROVE TaskInv(c)'
  <2>1. task'[c] = task[c] /\ TaskInv(c)
    BY <1>1, <1>11 DEF Others, TypeInv
  <2>2. \A w \in WorkflowIds : store[w] # None => store'[w] # None
    BY <1>4
  <2>3. QED
    BY <1>8, <2>1, <2>2
    DEF TaskInv, Awaits, Suspended, Buttons, Ended, Continues
<1> QED
  BY <1>6, <1>7, <1>9, <1>10, <1>11 DEF TypeInv

-----------------------------------------------------------------------------
(***************************************************************************)
(* The other steps of a task leave most of the state alone: what a step    *)
(* that only moves task d keeps of what is known of the other tasks.       *)
(***************************************************************************)
LEMMA EndType ==
  ASSUME TypeOK, NEW d \in Events, End(d)
  PROVE  task' \in [Events -> Task] /\ task'[d].pc = "ended" /\ Others(d)
<1>1. [NotStarted EXCEPT !.pc = "ended"] \in Task
      /\ [NotStarted EXCEPT !.pc = "ended"].pc = "ended"
  BY StatesOfTask DEF Pcs, NotStarted
<1> QED
  BY <1>1, AwaitType DEF End

LEMMA RefuseStartKeepsTypeInv ==
  ASSUME TypeInv, NEW d \in Events, RefuseStart(d)
  PROVE  TypeInv'
<1>1. /\ fresh[d] > 0 /\ Pop(d) /\ End(d) /\ d \notin acquired
      /\ acquired' = acquired \union {d}
      /\ UNCHANGED <<event, modal, message, issues, budget, store, session>>
  BY DEF RefuseStart, Begins, TryAcquire, stores
<1>2. task' \in [Events -> Task] /\ task'[d].pc = "ended" /\ Others(d)
  BY <1>1, EndType DEF TypeInv
<1>3. TypeOK' /\ IdInv' /\ EventInv'
  BY <1>1, <1>2, PopType DEF TypeInv, TypeOK, IdInv, EventInv
<1>4. \A m \in Events : Ended(m) => Ended(m)'
  BY <1>1, <1>2 DEF Ended, Others
<1>5. LastInv'
  BY <1>1, <1>4 DEF TypeInv, LastInv, Ended
<1>6. TaskInv(d)'
  BY <1>1, <1>2 DEF TaskInv, Awaits, Suspended
<1>7. ASSUME NEW c \in Events, c # d PROVE TaskInv(c)'
  BY <1>1, <1>2, <1>4, <1>7
  DEF Others, TypeInv, TaskInv, Awaits, Suspended, Buttons, Ended
<1> QED
  BY <1>3, <1>5, <1>6, <1>7 DEF TypeInv

LEMMA SkipDuplicateKeepsTypeInv ==
  ASSUME TypeInv, NEW d \in Events, SkipDuplicate(d)
  PROVE  TypeInv'
<1>1. /\ fresh[d] > 0 /\ Pop(d)
      /\ UNCHANGED <<event, modal, message, issues, budget, store, session,
                     acquired, task>>
  BY DEF SkipDuplicate, stores
<1>2. TypeOK' /\ IdInv' /\ EventInv'
  BY <1>1, PopType DEF TypeInv, TypeOK, IdInv, EventInv
<1>3. LastInv' /\ \A c \in Events : TaskInv(c)'
  BY <1>1
  DEF TypeInv, LastInv, Ended, TaskInv, Awaits, Suspended, Buttons
<1> QED
  BY <1>2, <1>3 DEF TypeInv

LEMMA SlackPostsKeepsTypeInv ==
  ASSUME TypeInv, NEW d \in Events, SlackPosts(d)
  PROVE  TypeInv'
<1> DEFINE msg == [wf |-> task[d].wf, step |-> task[d].step,
                   draft |-> task[d].draft, live |-> TRUE]
           t   == [task[d] EXCEPT !.pc = "posted", !.draft = None]
<1>1. /\ task[d].pc = "posting" /\ task[d] \in Task
      /\ message' = [message EXCEPT ![d] = msg] /\ Await(d, t)
      /\ UNCHANGED <<event, modal, issues, budget, store, session,
                     acquired, fresh>>
  BY DEF SlackPosts, Awaits, stores, users, TypeInv, TypeOK
<1>2. /\ task[d].wf \in WorkflowIds /\ task[d].step \in WaitSteps
      /\ store[task[d].wf] # None /\ d \in acquired
  BY <1>1 DEF TypeInv, TaskInv, Suspended, Awaits
<1>3. msg \in Message /\ msg # None /\ msg.wf = task[d].wf /\ msg.live
  <2>1. task[d].draft \in MaybeEvent
    BY <1>1 DEF Task
  <2>2. msg \in Message
    BY <1>2, <2>1 DEF Message
  <2>3. QED
    BY <2>2, NoneIsNoRecord
<1>4. t \in Task /\ t.pc = "posted" /\ t.wf = task[d].wf
  BY <1>1 DEF Task, Pcs, MaybeEvent
<1> HIDE DEF msg, t
<1>5. task' \in [Events -> Task] /\ task'[d] = t /\ Others(d)
  BY <1>1, <1>4, AwaitType DEF TypeInv
<1>6. /\ message' \in [Events -> Message \union {None}]
      /\ message'[d] = msg
      /\ \A m \in Events : m # d => message'[m] = message[m]
  BY <1>1, <1>3 DEF TypeInv, TypeOK
<1>7. TypeOK' /\ IdInv' /\ EventInv'
  BY <1>1, <1>5, <1>6 DEF TypeInv, TypeOK, IdInv, EventInv
<1>8. \A m \in Events : Ended(m) => Ended(m)' /\ message'[m] = message[m]
  BY <1>1, <1>5, <1>6 DEF Ended, Others
<1>9. LastInv'
  BY <1>1, <1>8 DEF TypeInv, LastInv, Ended
<1>10. TaskInv(d)'
  BY <1>1, <1>2, <1>3, <1>4, <1>5, <1>6
  DEF TaskInv, Awaits, Suspended, Buttons
<1>11. ASSUME NEW c \in Events, c # d PROVE TaskInv(c)'
  BY <1>1, <1>5, <1>6, <1>8, <1>11
  DEF Others, TypeInv, TaskInv, Awaits, Suspended, Buttons, Ended
<1> QED
  BY <1>7, <1>9, <1>10, <1>11 DEF TypeInv

LEMMA WaitType ==
  ASSUME TypeInv, NEW d \in Events, Wait(d)
  PROVE  LET w   == task[d].wf
             new == [Obj(d) EXCEPT !.messageTs = d, !.status = "WAITING"]
         IN  /\ task[d].pc = "posted" /\ d \in acquired
             /\ w \in WorkflowIds /\ store[w] \in Instance
             /\ store[w] # None /\ store[w].id = w
             /\ Buttons(d, w)
             /\ new \in Instance /\ new.id = w /\ new.key = store[w].key
             /\ new.messageTs = d /\ new.status = "WAITING"
             /\ new.draft = store[w].draft
             /\ store' \in [WorkflowIds -> Instance \union {None}]
             /\ store'[w] = new /\ new # None
             /\ \A v \in WorkflowIds : v # w => store'[v] = store[v]
             /\ task' \in [Events -> Task]
             /\ task'[d].pc = "ended" /\ Others(d)
             /\ UNCHANGED <<event, modal, issues, budget, session,
                            acquired, fresh, message>>
<1> DEFINE w   == task[d].wf
           new == [Obj(d) EXCEPT !.messageTs = d, !.status = "WAITING"]
<1>1. /\ task[d].pc = "posted" /\ Put(new) /\ End(d)
      /\ UNCHANGED <<event, modal, issues, budget, session,
                     acquired, fresh, message>>
  BY DEF Wait, Awaits, users
<1>2. /\ w \in WorkflowIds /\ store[w] # None /\ d \in acquired
      /\ Buttons(d, w)
  BY <1>1 DEF TypeInv, TaskInv, Suspended, Awaits
<1>3. store[w] \in Instance /\ store[w].id = w
  BY <1>2 DEF TypeInv, TypeOK, IdInv
<1>4. /\ new \in Instance /\ new.id = w /\ new.key = store[w].key
      /\ new.messageTs = d /\ new.status = "WAITING"
      /\ new.draft = store[w].draft
  BY <1>3 DEF Instance, Obj, MaybeEvent, Status
<1>5. task' \in [Events -> Task] /\ task'[d].pc = "ended" /\ Others(d)
  BY <1>1, EndType DEF TypeInv
<1> HIDE DEF new
<1>6. /\ store' \in [WorkflowIds -> Instance \union {None}]
      /\ store'[w] = new /\ new # None
      /\ \A v \in WorkflowIds : v # w => store'[v] = store[v]
  BY <1>1, <1>4, PutType DEF TypeInv
<1> QED
  BY <1>1, <1>2, <1>3, <1>4, <1>5, <1>6 DEF new

LEMMA WaitKeepsTypeInv ==
  ASSUME TypeInv, NEW d \in Events, Wait(d)
  PROVE  TypeInv'
<1> DEFINE w   == task[d].wf
           new == [Obj(d) EXCEPT !.messageTs = d, !.status = "WAITING"]
<1>1. /\ task[d].pc = "posted" /\ d \in acquired
      /\ w \in WorkflowIds /\ Buttons(d, w)
      /\ new.id = w /\ new.messageTs = d
      /\ store' \in [WorkflowIds -> Instance \union {None}]
      /\ store'[w] = new /\ new # None
      /\ \A v \in WorkflowIds : v # w => store'[v] = store[v]
      /\ task' \in [Events -> Task]
      /\ task'[d].pc = "ended" /\ Others(d)
      /\ UNCHANGED <<event, modal, issues, budget, session,
                     acquired, fresh, message>>
  BY WaitType
<1> HIDE DEF new, w
<1>2. TypeOK' /\ IdInv' /\ EventInv'
  BY <1>1 DEF TypeInv, TypeOK, IdInv, EventInv
<1>3. \A m \in Events : Ended(m) => Ended(m)'
  BY <1>1 DEF Ended, Others
<1>4. LastInv'
  <2>1. ASSUME NEW v \in WorkflowIds, store'[v] # None,
               store'[v].messageTs # None
        PROVE  /\ Ended(store[v].messageTs)'
               /\ message'[store'[v].messageTs].wf = v
    <3>1. CASE v = w
      BY <1>1, <3>1 DEF Ended, Buttons
    <3>2. CASE v # w
      BY <1>1, <1>3, <2>1, <3>2 DEF TypeInv, LastInv, Ended
    <3>3. QED
      BY <3>1, <3>2
  <2>2. QED
    BY <2>1 DEF LastInv
<1>5. TaskInv(d)'
  BY <1>1 DEF TaskInv, Awaits, Suspended
<1>6. ASSUME NEW c \in Events, c # d PROVE TaskInv(c)'
  BY <1>1, <1>3, <1>6
  DEF Others, TypeInv, TaskInv, Awaits, Suspended, Buttons, Ended
<1> QED
  BY <1>2, <1>4, <1>5, <1>6 DEF TypeInv

LEMMA GitHubFilesType ==
  ASSUME TypeOK, NEW d \in Events, task[d].wf \in WorkflowIds, GitHubFiles(d)
  PROVE  LET new == [ev |-> d, wf |-> task[d].wf,
                     draft |-> task[d].draft, relation |-> "none"]
         IN  /\ task[d].pc = "filing"
             /\ new \in Issue
             /\ issues' = Append(issues, new)
             /\ issues' \in Seq(Issue) /\ Len(issues') = Len(issues) + 1
             /\ task' \in [Events -> Task] /\ Others(d)
             /\ task'[d].pc \in {"filed", "relating"}
             /\ task'[d].wf = task[d].wf
             /\ task'[d].issue = Len(issues')
             /\ UNCHANGED <<event, modal, message, budget, store, session,
                            acquired, fresh>>
<1> DEFINE new == [ev |-> d, wf |-> task[d].wf,
                   draft |-> task[d].draft, relation |-> "none"]
           pc  == IF task[d].relation = "none" THEN "filed" ELSE "relating"
           t   == [task[d] EXCEPT !.pc = pc, !.issue = Len(issues) + 1,
                                  !.draft = None]
<1>1. /\ task[d].pc = "filing" /\ task[d] \in Task
      /\ issues' = Append(issues, new) /\ Await(d, t)
      /\ issues \in Seq(Issue) /\ Len(issues) \in Nat
      /\ UNCHANGED <<event, modal, message, budget, store, session,
                     acquired, fresh>>
  BY DEF GitHubFiles, Awaits, stores, users, TypeOK
<1>2. new \in Issue
  BY <1>1 DEF Issue, Task, Relations
<1>3. /\ t \in Task /\ t.pc \in {"filed", "relating"}
      /\ t.wf = task[d].wf /\ t.issue = Len(issues) + 1
  <2>1. pc \in {"filed", "relating"} /\ Len(issues) + 1 \in Nat
    BY <1>1
  <2> HIDE DEF pc
  <2>2. QED
    BY <1>1, <2>1 DEF Task, Pcs, MaybeEvent
<1> HIDE DEF new, t
<1>4. issues' \in Seq(Issue) /\ Len(issues') = Len(issues) + 1
  BY <1>1, <1>2
<1>5. task' \in [Events -> Task] /\ task'[d] = t /\ Others(d)
  BY <1>1, <1>3, AwaitType
<1> QED
  BY <1>1, <1>2, <1>3, <1>4, <1>5 DEF new

LEMMA GitHubFilesKeepsTypeInv ==
  ASSUME TypeInv, NEW d \in Events, GitHubFiles(d)
  PROVE  TypeInv'
<1>1. /\ task[d].pc = "filing" /\ d \in acquired
      /\ task[d].wf \in WorkflowIds /\ store[task[d].wf] # None
  BY DEF GitHubFiles, TypeInv, TaskInv, Suspended, Awaits
<1>2. /\ issues' \in Seq(Issue) /\ Len(issues') = Len(issues) + 1
      /\ Len(issues) \in Nat
      /\ task' \in [Events -> Task] /\ Others(d)
      /\ task'[d].pc \in {"filed", "relating"}
      /\ task'[d].wf = task[d].wf
      /\ task'[d].issue = Len(issues')
      /\ UNCHANGED <<event, modal, message, budget, store, session,
                     acquired, fresh>>
  <2>1. TypeOK /\ Len(issues) \in Nat
    BY DEF TypeInv, TypeOK
  <2>2. QED
    BY <1>1, <2>1, GitHubFilesType
<1>3. TypeOK' /\ IdInv' /\ EventInv'
  BY <1>2 DEF TypeInv, TypeOK, IdInv, EventInv
<1>4. \A m \in Events : Ended(m) => Ended(m)'
  BY <1>1, <1>2 DEF Ended, Others
<1>5. LastInv'
  BY <1>2, <1>4 DEF TypeInv, LastInv, Ended
<1>6. TaskInv(d)'
  BY <1>1, <1>2 DEF TaskInv, Awaits, Suspended
<1>7. ASSUME NEW c \in Events, c # d PROVE TaskInv(c)'
  BY <1>1, <1>2, <1>4, <1>7
  DEF Others, TypeInv, TaskInv, Awaits, Suspended, Buttons, Ended
<1> QED
  BY <1>3, <1>5, <1>6, <1>7 DEF TypeInv

LEMMA GitHubRelatesType ==
  ASSUME TypeInv, NEW d \in Events, GitHubRelates(d)
  PROVE  LET i == task[d].issue
         IN  /\ task[d].pc = "relating" /\ i \in 1 .. Len(issues)
             /\ task[d].relation \in Relations
             /\ issues' = [issues EXCEPT ![i].relation = task[d].relation]
             /\ issues' \in Seq(Issue) /\ Len(issues') = Len(issues)
             /\ \A j \in 1 .. Len(issues) :
                  issues'[j].ev = issues[j].ev /\ issues'[j].wf = issues[j].wf
             /\ task' \in [Events -> Task] /\ Others(d)
             /\ task'[d].pc = "filed" /\ task'[d].wf = task[d].wf
             /\ UNCHANGED <<event, modal, message, budget, store, session,
                            acquired, fresh>>
<1> DEFINE i == task[d].issue
           r == task[d].relation
           t == [task[d] EXCEPT !.pc = "filed", !.relation = "none"]
<1>1. /\ task[d].pc = "relating" /\ task[d] \in Task
      /\ issues' = [issues EXCEPT ![i].relation = r]
      /\ Await(d, t) /\ issues \in Seq(Issue)
      /\ UNCHANGED <<event, modal, message, budget, store, session,
                     acquired, fresh>>
  BY DEF GitHubRelates, Awaits, stores, users, TypeInv, TypeOK
<1>2. i \in 1 .. Len(issues) /\ r \in Relations
  BY <1>1 DEF TypeInv, TaskInv, Awaits, Task
<1>3. t \in Task /\ t.pc = "filed" /\ t.wf = task[d].wf
  BY <1>1 DEF Task, Pcs, Relations
<1>4. issues[i] \in Issue /\ [issues[i] EXCEPT !.relation = r] \in Issue
  <2>1. issues[i] \in Issue
    BY <1>1, <1>2, ElementOfSeq
  <2>2. QED
    BY <1>2, <2>1 DEF Issue
<1> HIDE DEF i, r, t
<1>5. issues' = [issues EXCEPT ![i] = [issues[i] EXCEPT !.relation = r]]
  BY <1>1, <1>2
<1>6. /\ issues' \in Seq(Issue) /\ Len(issues') = Len(issues)
      /\ \A j \in 1 .. Len(issues) :
           issues'[j].ev = issues[j].ev /\ issues'[j].wf = issues[j].wf
  <2>1. issues' \in Seq(Issue) /\ Len(issues') = Len(issues)
    BY <1>1, <1>2, <1>4, <1>5, ExceptSeq
  <2>2. ASSUME NEW j \in 1 .. Len(issues)
        PROVE  issues'[j].ev = issues[j].ev /\ issues'[j].wf = issues[j].wf
    <3>1. CASE j = i
      BY <1>1, <1>2, <1>4, <1>5, <3>1 DEF Issue
    <3>2. CASE j # i
      BY <1>1, <1>2, <1>5, <3>2
    <3>3. QED
      BY <3>1, <3>2
  <2>3. QED
    BY <2>1, <2>2
<1>7. task' \in [Events -> Task] /\ task'[d] = t /\ Others(d)
  BY <1>1, <1>3, AwaitType DEF TypeInv
<1> QED
  BY <1>1, <1>2, <1>3, <1>6, <1>7 DEF i, r

LEMMA GitHubRelatesKeepsTypeInv ==
  ASSUME TypeInv, NEW d \in Events, GitHubRelates(d)
  PROVE  TypeInv'
<1>1. /\ task[d].pc = "relating"
      /\ issues' \in Seq(Issue) /\ Len(issues') = Len(issues)
      /\ task' \in [Events -> Task] /\ Others(d)
      /\ task'[d].pc = "filed" /\ task'[d].wf = task[d].wf
      /\ UNCHANGED <<event, modal, message, budget, store, session,
                     acquired, fresh>>
  BY GitHubRelatesType
<1>2. TypeOK' /\ IdInv' /\ EventInv'
  BY <1>1 DEF TypeInv, TypeOK, IdInv, EventInv
<1>3. \A m \in Events : Ended(m) => Ended(m)'
  BY <1>1 DEF Ended, Others
<1>4. LastInv'
  BY <1>1, <1>3 DEF TypeInv, LastInv, Ended
<1>5. TaskInv(d)'
  BY <1>1 DEF TypeInv, TaskInv, Awaits, Suspended
<1>6. ASSUME NEW c \in Events, c # d PROVE TaskInv(c)'
  BY <1>1, <1>3, <1>6
  DEF Others, TypeInv, TaskInv, Awaits, Suspended, Buttons, Ended
<1> QED
  BY <1>2, <1>4, <1>5, <1>6 DEF TypeInv

LEMMA IssueFiledType ==
  ASSUME TypeInv, NEW d \in Events, IssueFiled(d)
  PROVE  LET w == task[d].wf
         IN  /\ task[d].pc = "filed" /\ d \in acquired
             /\ w \in WorkflowIds
             /\ store[w] \in Instance /\ store[w] # None /\ store[w].id = w
             /\ store' \in [WorkflowIds -> Instance \union {None}]
             /\ store'[w] \in Instance /\ store'[w] # None
             /\ store'[w].id = w /\ store'[w].key = store[w].key
             /\ store'[w].status = "COMPLETED"
             /\ store'[w].messageTs = store[w].messageTs
             /\ store'[w].draft = store[w].draft
             /\ \A v \in WorkflowIds : v # w => store'[v] = store[v]
             /\ task' \in [Events -> Task] /\ Others(d)
             /\ task'[d].pc = "notifying" /\ task'[d].wf = w
             /\ task'[d].ts = store[w].messageTs
             /\ UNCHANGED <<event, modal, message, issues, budget, session,
                            acquired, fresh>>
<1> DEFINE w    == task[d].wf
           inst == [Obj(d) EXCEPT !.url = task[d].issue]
           new  == WithStatus(inst, "COMPLETED")
<1>1. /\ task[d].pc = "filed" /\ task[d] \in Task /\ Stop(d, inst)
      /\ UNCHANGED <<event, modal, message, issues, budget, session,
                     acquired, fresh>>
  BY DEF IssueFiled, Awaits, users, TypeInv, TypeOK
<1>2. /\ w \in WorkflowIds /\ store[w] # None /\ d \in acquired
      /\ store[w] \in Instance /\ store[w].id = w
  BY <1>1 DEF TypeInv, TypeOK, TaskInv, Suspended, Awaits, IdInv
<1>3. /\ inst \in Instance /\ inst.id = w /\ inst.key = store[w].key
      /\ inst.messageTs = store[w].messageTs /\ inst.draft = store[w].draft
  BY <1>1, <1>2 DEF Obj, Instance, Task
<1> HIDE DEF inst
<1>4. task' \in [Events -> Task] /\ Others(d) /\ Stops(d, inst)
  BY <1>1, <1>3, StopOutcome DEF TypeInv
<1>5. /\ new \in Instance /\ new.id = w /\ new.key = store[w].key
      /\ new.status = "COMPLETED" /\ new.messageTs = store[w].messageTs
      /\ new.draft = store[w].draft
  BY <1>3, StatusType DEF Status
<1>6. Put(new)
  BY <1>4 DEF Stops
<1> HIDE DEF new
<1>7. /\ store' \in [WorkflowIds -> Instance \union {None}]
      /\ store'[w] = new /\ new # None
      /\ \A v \in WorkflowIds : v # w => store'[v] = store[v]
  BY <1>5, <1>6, PutType DEF TypeInv
<1> QED
  BY <1>1, <1>2, <1>3, <1>4, <1>5, <1>7 DEF Stops

LEMMA IssueFiledKeepsTypeInv ==
  ASSUME TypeInv, NEW d \in Events, IssueFiled(d)
  PROVE  TypeInv'
<1> DEFINE w == task[d].wf
<1>1. /\ task[d].pc = "filed" /\ d \in acquired
      /\ w \in WorkflowIds /\ store[w] # None
      /\ store' \in [WorkflowIds -> Instance \union {None}]
      /\ store'[w] # None /\ store'[w].id = w
      /\ store'[w].messageTs = store[w].messageTs
      /\ \A v \in WorkflowIds : v # w => store'[v] = store[v]
      /\ task' \in [Events -> Task] /\ Others(d)
      /\ task'[d].pc = "notifying" /\ task'[d].wf = w
      /\ task'[d].ts = store[w].messageTs
      /\ UNCHANGED <<event, modal, message, issues, budget, session,
                     acquired, fresh>>
  BY IssueFiledType
<1> HIDE DEF w
<1>2. TypeOK' /\ IdInv' /\ EventInv'
  BY <1>1 DEF TypeInv, TypeOK, IdInv, EventInv
<1>3. \A m \in Events : Ended(m) => Ended(m)'
  BY <1>1 DEF Ended, Others
<1>4. \A v \in WorkflowIds :
        store'[v] # None => store[v] # None
                            /\ store'[v].messageTs = store[v].messageTs
  BY <1>1
<1>5. LastInv'
  BY <1>1, <1>3, <1>4 DEF TypeInv, LastInv, Ended
<1>6. TaskInv(d)'
  BY <1>1, <1>3 DEF TypeInv, LastInv, TaskInv, Awaits, Suspended, Ended
<1>7. ASSUME NEW c \in Events, c # d PROVE TaskInv(c)'
  BY <1>1, <1>3, <1>7
  DEF Others, TypeInv, TaskInv, Awaits, Suspended, Buttons, Ended
<1> QED
  BY <1>2, <1>5, <1>6, <1>7 DEF TypeInv

LEMMA SlackUpdatesType ==
  ASSUME TypeInv, NEW d \in Events, SlackUpdates(d)
  PROVE  /\ task[d].pc = "notifying"
         /\ task[d].ts # None => Ended(task[d].ts)
         /\ message' \in [Events -> Message \union {None}]
         /\ \A m \in Events :
              /\ m # task[d].ts => message'[m] = message[m]
              /\ message'[m] = None <=> message[m] = None
              /\ message[m] # None =>
                   /\ message'[m].wf = message[m].wf
                   /\ message'[m].step = message[m].step
                   /\ message'[m].draft = message[m].draft
         /\ task' \in [Events -> Task] /\ Others(d)
         /\ task'[d].pc = "notified" /\ task'[d].wf = task[d].wf
         /\ UNCHANGED <<event, modal, issues, budget, store, session,
                        acquired, fresh>>
<1> DEFINE t == [task[d] EXCEPT !.pc = "notified", !.ts = None]
           m == task[d].ts
           new == [message[m] EXCEPT !.live = FALSE]
<1>1. /\ task[d].pc = "notifying" /\ task[d] \in Task /\ Await(d, t)
      /\ message' = IF m = None THEN message
                    ELSE [message EXCEPT ![m].live = FALSE]
      /\ UNCHANGED <<event, modal, issues, budget, store, session,
                     acquired, fresh>>
  BY DEF SlackUpdates, Awaits, stores, users, TypeInv, TypeOK
<1>2. t \in Task /\ t.pc = "notified" /\ t.wf = task[d].wf
  BY <1>1 DEF Task, Pcs, MaybeEvent
<1> HIDE DEF t
<1>3. task' \in [Events -> Task] /\ task'[d] = t /\ Others(d)
  BY <1>1, <1>2, AwaitType DEF TypeInv
<1>4. m # None => Ended(m)
  BY <1>1 DEF TypeInv, TaskInv, Awaits
<1>5. message \in [Events -> Message \union {None}]
  BY DEF TypeInv, TypeOK
<1>6. CASE m = None
  BY <1>1, <1>2, <1>3, <1>4, <1>5, <1>6
<1>7. CASE m # None
  <2>1. /\ m \in Events /\ message[m] # None /\ message[m] \in Message
    BY <1>4, <1>5, <1>7 DEF Ended
  <2>2. /\ new \in Message /\ new.wf = message[m].wf
        /\ new.step = message[m].step /\ new.draft = message[m].draft
    BY <2>1 DEF Message
  <2>3. message' = [message EXCEPT ![m] = new] /\ new # None
    BY <1>1, <1>7, <2>2, NoneIsNoRecord
  <2> HIDE DEF new, m
  <2>4. message' \in [Events -> Message \union {None}]
    BY <1>5, <2>1, <2>2, <2>3
  <2>5. \A k \in Events :
          /\ k # m => message'[k] = message[k]
          /\ message'[k] = None <=> message[k] = None
          /\ message[k] # None =>
               /\ message'[k].wf = message[k].wf
               /\ message'[k].step = message[k].step
               /\ message'[k].draft = message[k].draft
    BY <1>5, <2>1, <2>2, <2>3
  <2>6. QED
    BY <1>1, <1>2, <1>3, <1>4, <2>4, <2>5 DEF m
<1> QED
  BY <1>6, <1>7

LEMMA SlackUpdatesKeepsTypeInv ==
  ASSUME TypeInv, NEW d \in Events, SlackUpdates(d)
  PROVE  TypeInv'
<1>1. /\ task[d].pc = "notifying"
      /\ task[d].ts # None => Ended(task[d].ts)
      /\ message' \in [Events -> Message \union {None}]
      /\ \A m \in Events :
           /\ m # task[d].ts => message'[m] = message[m]
           /\ message'[m] = None <=> message[m] = None
           /\ message[m] # None => message'[m].wf = message[m].wf
      /\ task' \in [Events -> Task] /\ Others(d)
      /\ task'[d].pc = "notified" /\ task'[d].wf = task[d].wf
      /\ UNCHANGED <<event, modal, issues, budget, store, session,
                     acquired, fresh>>
  BY SlackUpdatesType
<1>2. TypeOK' /\ IdInv' /\ EventInv'
  BY <1>1 DEF TypeInv, TypeOK, IdInv, EventInv
<1>3. \A m \in Events :
        Ended(m) => Ended(m)' /\ message'[m].wf = message[m].wf
  BY <1>1 DEF Ended, Others
<1>4. LastInv'
  BY <1>1, <1>3 DEF TypeInv, LastInv, Ended
<1>5. TaskInv(d)'
  BY <1>1 DEF TypeInv, TaskInv, Awaits, Suspended
<1>6. ASSUME NEW c \in Events, c # d PROVE TaskInv(c)'
  <2>1. Awaits(c, "posted") => c # task[d].ts
    BY <1>1, NoneAssumption DEF Ended, Awaits
  <2>2. QED
    BY <1>1, <1>3, <1>6, <2>1
    DEF Others, TypeInv, TaskInv, Awaits, Suspended, Buttons, Ended
<1> QED
  BY <1>2, <1>4, <1>5, <1>6 DEF TypeInv

LEMMA CompleteType ==
  ASSUME TypeInv, NEW d \in Events, Complete(d)
  PROVE  /\ task[d].pc = "notified"
         /\ task[d].wf \in WorkflowIds /\ store[task[d].wf] # None
         /\ store[task[d].wf] \in Instance
         /\ session' = Freed(session, store[task[d].wf].key)
         /\ task' \in [Events -> Task] /\ Others(d)
         /\ task'[d].pc = "ended"
         /\ UNCHANGED <<event, modal, message, issues, budget, store,
                        acquired, fresh>>
<1>1. /\ task[d].pc = "notified" /\ End(d)
      /\ session' = Freed(session, store[task[d].wf].key)
      /\ UNCHANGED <<event, modal, message, issues, budget, store,
                     acquired, fresh>>
  BY DEF Complete, Awaits, users, Obj, Freed
<1>2. task[d].wf \in WorkflowIds /\ store[task[d].wf] # None
  BY <1>1 DEF TypeInv, TaskInv, Suspended
<1>3. store[task[d].wf] \in Instance
  BY <1>2 DEF TypeInv, TypeOK
<1>4. task' \in [Events -> Task] /\ Others(d) /\ task'[d].pc = "ended"
  BY <1>1, EndType DEF TypeInv
<1> QED
  BY <1>1, <1>2, <1>3, <1>4

LEMMA CompleteKeepsTypeInv ==
  ASSUME TypeInv, NEW d \in Events, Complete(d)
  PROVE  TypeInv'
<1>1. /\ task[d].pc = "notified"
      /\ session' = Freed(session, store[task[d].wf].key)
      /\ task' \in [Events -> Task] /\ Others(d)
      /\ task'[d].pc = "ended"
      /\ UNCHANGED <<event, modal, message, issues, budget, store,
                     acquired, fresh>>
  BY CompleteType
<1>2. TypeOK' /\ IdInv' /\ EventInv'
  BY <1>1 DEF TypeInv, TypeOK, IdInv, EventInv, Freed
<1>3. \A m \in Events : Ended(m) => Ended(m)'
  BY <1>1 DEF Ended, Others
<1>4. LastInv'
  BY <1>1, <1>3 DEF TypeInv, LastInv, Ended
<1>5. TaskInv(d)'
  BY <1>1 DEF TypeInv, TaskInv, Awaits, Suspended
<1>6. ASSUME NEW c \in Events, c # d PROVE TaskInv(c)'
  BY <1>1, <1>3, <1>6
  DEF Others, TypeInv, TaskInv, Awaits, Suspended, Buttons, Ended
<1> QED
  BY <1>2, <1>4, <1>5, <1>6 DEF TypeInv

LEMMA RaiseType ==
  ASSUME TypeInv, NEW d \in Events, Raise(d)
  PROVE  /\ Suspended(d) /\ d \in acquired
         /\ task' \in [Events -> Task] /\ Others(d)
         /\ task'[d].pc = "raised" /\ task'[d].wf = task[d].wf
         /\ budget.errors > 0
         /\ budget' = [budget EXCEPT !.errors = @ - 1]
         /\ UNCHANGED <<event, modal, message, issues, store, session,
                        acquired, fresh>>
<1>1. /\ Suspended(d) /\ Await(d, Raised(task[d].wf))
      /\ budget.errors > 0
      /\ budget' = [budget EXCEPT !.errors = @ - 1]
      /\ UNCHANGED <<event, modal, message, issues, store, session,
                     acquired, fresh>>
  BY DEF Raise, stores, users
<1>2. task[d].wf \in WorkflowIds /\ d \in acquired
  BY <1>1 DEF TypeInv, TaskInv, Suspended
<1>3. /\ Raised(task[d].wf) \in Task /\ Raised(task[d].wf).pc = "raised"
      /\ Raised(task[d].wf).wf = task[d].wf
  BY <1>2, StatesOfTask DEF Raised, NotStarted
<1>4. task' \in [Events -> Task] /\ Others(d) /\ task'[d] = Raised(task[d].wf)
  BY <1>1, <1>3, AwaitType DEF TypeInv
<1> QED
  BY <1>1, <1>2, <1>3, <1>4

LEMMA RaiseKeepsTypeInv ==
  ASSUME TypeInv, NEW d \in Events, Raise(d)
  PROVE  TypeInv'
<1>1. /\ Suspended(d) /\ d \in acquired
      /\ task' \in [Events -> Task] /\ Others(d)
      /\ task'[d].pc = "raised"
      /\ budget.errors > 0
      /\ budget' = [budget EXCEPT !.errors = @ - 1]
      /\ UNCHANGED <<event, modal, message, issues, store, session,
                     acquired, fresh>>
  BY RaiseType
<1>2. TypeOK' /\ IdInv' /\ EventInv'
  BY <1>1 DEF TypeInv, TypeOK, IdInv, EventInv
<1>3. \A m \in Events : Ended(m) => Ended(m)'
  BY <1>1 DEF Ended, Others, Suspended
<1>4. LastInv'
  BY <1>1, <1>3 DEF TypeInv, LastInv, Ended
<1>5. TaskInv(d)'
  BY <1>1 DEF TypeInv, TaskInv, Awaits, Suspended
<1>6. ASSUME NEW c \in Events, c # d PROVE TaskInv(c)'
  BY <1>1, <1>3, <1>6
  DEF Others, TypeInv, TaskInv, Awaits, Suspended, Buttons, Ended
<1> QED
  BY <1>2, <1>4, <1>5, <1>6 DEF TypeInv

-----------------------------------------------------------------------------
(***************************************************************************)
(* The users only send events and open modals: an event is sent once, and  *)
(* an accept is for a workflow whose draft is on Slack.                    *)
(***************************************************************************)
Sends(d, e) ==
  /\ event[d] = None /\ e \in Event /\ EventOf(e)
  /\ event' = [event EXCEPT ![d] = e]
  /\ e.type = "accept" =>
       \E m \in Events : Buttons(m, e.wf) /\ message[m].step = "wait_confirmation"

LEMMA UserStepType ==
  ASSUME TypeInv, NEW d \in Events, UserStep(d) \/ PressReject(d)
  PROVE  /\ \/ event' = event
            \/ \E e \in Event : Sends(d, e)
         /\ fresh' \in [Events -> Nat]
         /\ \A c \in Events : fresh'[c] > 0 => fresh[c] > 0 \/ event'[c] # None
         /\ modal' \subseteq WorkflowIds
         /\ budget' \in [errors : Nat, resends : Nat]
         /\ budget'.errors = budget.errors
         /\ UNCHANGED <<store, session, acquired, task, message, issues>>
<1>1. /\ event \in [Events -> Event \union {None}] /\ fresh \in [Events -> Nat]
      /\ modal \subseteq WorkflowIds /\ budget \in [errors : Nat, resends : Nat]
      /\ message \in [Events -> Message \union {None}]
      /\ \A c \in Events : fresh[c] > 0 => event[c] # None
  BY DEF TypeInv, TypeOK, EventInv
<1>2. ASSUME NEW e \in Event, Send(d, e), EventOf(e), modal' \subseteq WorkflowIds,
             e.type = "accept" => \E m \in Events :
               Buttons(m, e.wf) /\ message[m].step = "wait_confirmation"
      PROVE  /\ \E b \in Event : Sends(d, b)
             /\ fresh' \in [Events -> Nat]
             /\ \A c \in Events :
                  fresh'[c] > 0 => fresh[c] > 0 \/ event'[c] # None
             /\ budget' \in [errors : Nat, resends : Nat]
             /\ budget'.errors = budget.errors
             /\ UNCHANGED <<store, session, acquired, task, message, issues>>
  <2>1. /\ event[d] = None /\ event' = [event EXCEPT ![d] = e]
        /\ fresh' = [fresh EXCEPT ![d] = 1] /\ budget' = budget
        /\ UNCHANGED <<store, session, acquired, task, message, issues>>
    BY <1>2 DEF Send, stores
  <2>2. Sends(d, e) /\ e # None
    BY <1>2, <2>1, NoneIsNoRecord DEF Sends
  <2>3. QED
    BY <1>1, <2>1, <2>2
<1>3. CASE \E k \in Keys, sub \in Requests : SubmitRequest(d, k, sub)
  <2>1. PICK k \in Keys, sub \in Requests : SubmitRequest(d, k, sub)
    BY <1>3
  <2>2. Send(d, StartEvent(k, sub)) /\ modal' = modal
    BY <2>1 DEF SubmitRequest
  <2>3. /\ StartEvent(k, sub) \in Event /\ EventOf(StartEvent(k, sub))
        /\ StartEvent(k, sub).type # "accept"
    BY LocalAssumption DEF StartEvent, Event, EventOf
  <2>4. QED
    BY <1>1, <1>2, <2>2, <2>3
<1>4. CASE \E m \in Events, decision \in Choices : PressDecision(d, m, decision)
  <2>1. PICK m \in Events, decision \in Choices : PressDecision(d, m, decision)
    BY <1>4
  <2> DEFINE e == ResumeEvent(decision, message[m].wf, FALSE)
  <2>2. Send(d, e) /\ modal' = modal /\ message[m] # None
    BY <2>1 DEF PressDecision, Pressable
  <2>3. message[m].wf \in WorkflowIds /\ decision \in Decision
    BY <1>1, <2>2, LocalAssumption DEF Message
  <2>4. e \in Event /\ EventOf(e) /\ e.type # "accept"
    BY <2>3 DEF ResumeEvent, Event, EventOf, ResumeActions, Decision, Subcommands
  <2> HIDE DEF e
  <2>5. QED
    BY <1>1, <1>2, <2>2, <2>4
<1>5. CASE \E m \in Events : PressAccept(d, m)
  <2>1. PICK m \in Events : PressAccept(d, m)
    BY <1>5
  <2> DEFINE e == ResumeEvent("accept", message[m].wf, FALSE)
  <2>2. /\ Send(d, e) /\ modal' = modal /\ message[m] # None
        /\ message[m].live /\ message[m].step = "wait_confirmation"
    BY <2>1 DEF PressAccept, Pressable
  <2>3. message[m].wf \in WorkflowIds
    BY <1>1, <2>2 DEF Message
  <2>4. e \in Event /\ EventOf(e) /\ e.wf = message[m].wf
    BY <2>3 DEF ResumeEvent, Event, EventOf, ResumeActions, Subcommands
  <2>5. Buttons(m, e.wf)
    BY <2>2, <2>4 DEF Buttons
  <2> HIDE DEF e
  <2>6. QED
    BY <1>1, <1>2, <2>2, <2>4, <2>5
<1>6. CASE \E w \in WorkflowIds, fb \in Comments : SubmitReject(d, w, fb)
  <2>1. PICK w \in WorkflowIds, fb \in Comments : SubmitReject(d, w, fb)
    BY <1>6
  <2> DEFINE e == ResumeEvent("reject", w, fb)
  <2>2. Send(d, e) /\ modal' = modal \ {w}
    BY <2>1 DEF SubmitReject
  <2>3. e \in Event /\ EventOf(e) /\ e.type # "accept"
    BY LocalAssumption
    DEF ResumeEvent, Event, EventOf, ResumeActions, Subcommands
  <2> HIDE DEF e
  <2>4. QED
    BY <1>1, <1>2, <2>2, <2>3
<1>7. CASE Resend(d)
  <2>1. /\ event[d] # None /\ budget.resends > 0
        /\ budget' = [budget EXCEPT !.resends = @ - 1]
        /\ fresh' = [fresh EXCEPT ![d] = @ + 1]
        /\ UNCHANGED <<store, session, acquired, event, modal, task, message,
                       issues>>
    BY <1>7 DEF Resend, stores
  <2>2. fresh' \in [Events -> Nat]
    BY <1>1, <2>1
  <2>3. \A c \in Events : fresh'[c] > 0 => fresh[c] > 0 \/ event'[c] # None
    BY <1>1, <2>1
  <2>4. budget' \in [errors : Nat, resends : Nat]
        /\ budget'.errors = budget.errors
    BY <1>1, <2>1
  <2>5. QED
    BY <1>1, <2>1, <2>2, <2>3, <2>4
<1>8. CASE PressReject(d)
  <2>1. /\ modal' = modal \union {message[d].wf} /\ message[d] # None
        /\ UNCHANGED <<store, session, acquired, event, fresh, task, message,
                       issues, budget>>
    BY <1>8 DEF PressReject, Pressable, stores
  <2>2. message[d].wf \in WorkflowIds
    BY <1>1, <2>1 DEF Message
  <2>3. QED
    BY <1>1, <2>1, <2>2
<1> QED
  BY <1>3, <1>4, <1>5, <1>6, <1>7, <1>8 DEF UserStep

LEMMA UserStepKeepsTypeInv ==
  ASSUME TypeInv, NEW d \in Events, UserStep(d) \/ PressReject(d)
  PROVE  TypeInv'
<1>1. /\ \/ event' = event
         \/ \E e \in Event : Sends(d, e)
      /\ fresh' \in [Events -> Nat]
      /\ \A c \in Events : fresh'[c] > 0 => fresh[c] > 0 \/ event'[c] # None
      /\ modal' \subseteq WorkflowIds
      /\ budget' \in [errors : Nat, resends : Nat]
      /\ UNCHANGED <<store, session, acquired, task, message, issues>>
  BY UserStepType
<1>2. /\ event' \in [Events -> Event \union {None}]
      /\ \A c \in Events :
           /\ event'[c] # None => EventOf(event'[c])
           /\ event[c] # None => event'[c] # None
  <2>1. CASE event' = event
    BY <2>1 DEF TypeInv, TypeOK, EventInv
  <2>2. CASE \E e \in Event : Sends(d, e)
    <3>1. PICK e \in Event : Sends(d, e)
      BY <2>2
    <3>2. /\ event[d] = None /\ EventOf(e) /\ event' = [event EXCEPT ![d] = e]
          /\ e # None
      BY <3>1, NoneIsNoRecord DEF Sends
    <3>3. event \in [Events -> Event \union {None}]
          /\ \A c \in Events : event[c] # None => EventOf(event[c])
      BY DEF TypeInv, TypeOK, EventInv
    <3>4. QED
      BY <3>2, <3>3
  <2>3. QED
    BY <1>1, <2>1, <2>2
<1>3. TypeOK' /\ IdInv'
  BY <1>1, <1>2 DEF TypeInv, TypeOK, IdInv
<1>4. EventInv'
  BY <1>1, <1>2 DEF TypeInv, EventInv
<1>5. LastInv' /\ \A c \in Events : TaskInv(c)'
  BY <1>1
  DEF TypeInv, LastInv, Ended, TaskInv, Awaits, Suspended, Buttons
<1> QED
  BY <1>3, <1>4, <1>5 DEF TypeInv

Drops == \E k \in Keys : DropCommand(k) \/ \E m \in Events : DropButton(m, k)

LEMMA DropsType ==
  ASSUME TypeInv, Drops
  PROVE  \E k \in Keys, w \in WorkflowIds :
           /\ store[w] \in Instance
           /\ store' = [store EXCEPT ![w] = WithStatus(store[w], "CANCELLED")]
           /\ session' = Freed(session, k)
           /\ UNCHANGED <<event, fresh, modal, acquired, task, message, issues,
                          budget>>
<1>1. ASSUME NEW k \in Keys, NEW w \in WorkflowIds, Cancel(k, w)
      PROVE  /\ store[w] \in Instance
             /\ store' = [store EXCEPT ![w] = WithStatus(store[w], "CANCELLED")]
             /\ session' = Freed(session, k)
             /\ UNCHANGED <<event, fresh, modal, acquired, task, message,
                            issues, budget>>
  <2>1. store[w] # None /\ store \in [WorkflowIds -> Instance \union {None}]
    BY <1>1 DEF Cancel, TypeInv, TypeOK
  <2>2. QED
    BY <1>1, <2>1 DEF Cancel, WithStatus, Freed, users
<1>2. ASSUME NEW k \in Keys, DropCommand(k)
      PROVE  session[k] \in WorkflowIds /\ Cancel(k, session[k])
  BY <1>2 DEF DropCommand, TypeInv, TypeOK
<1>3. ASSUME NEW k \in Keys, NEW m \in Events, DropButton(m, k)
      PROVE  message[m].wf \in WorkflowIds /\ Cancel(k, message[m].wf)
  <2>1. message[m] \in Message
    BY <1>3 DEF DropButton, Pressable, TypeInv, TypeOK
  <2>2. QED
    BY <1>3, <2>1 DEF DropButton, Message
<1> QED
  BY <1>1, <1>2, <1>3 DEF Drops

LEMMA DropsKeepsTypeInv ==
  ASSUME TypeInv, Drops
  PROVE  TypeInv'
<1>1. PICK k \in Keys, w \in WorkflowIds :
        /\ store[w] \in Instance
        /\ store' = [store EXCEPT ![w] = WithStatus(store[w], "CANCELLED")]
        /\ session' = Freed(session, k)
        /\ UNCHANGED <<event, fresh, modal, acquired, task, message, issues,
                       budget>>
  BY DropsType
<1> DEFINE new == WithStatus(store[w], "CANCELLED")
<1>2. /\ new \in Instance /\ new.id = store[w].id
      /\ new.messageTs = store[w].messageTs
  BY <1>1, StatusType DEF Status
<1>3. new # None /\ store[w] # None
  BY <1>1, <1>2, NoneIsNoRecord
<1> HIDE DEF new
<1>4. /\ store' \in [WorkflowIds -> Instance \union {None}]
      /\ \A v \in WorkflowIds :
           /\ store'[v] # None <=> store[v] # None
           /\ store'[v].id = store[v].id
           /\ store'[v].messageTs = store[v].messageTs
  BY <1>1, <1>2, <1>3 DEF TypeInv, TypeOK, new
<1>5. TypeOK' /\ IdInv' /\ EventInv'
  BY <1>1, <1>4 DEF TypeInv, TypeOK, IdInv, EventInv, Freed
<1>6. LastInv' /\ \A c \in Events : TaskInv(c)'
  BY <1>1, <1>4
  DEF TypeInv, LastInv, Ended, TaskInv, Awaits, Suspended, Buttons
<1> QED
  BY <1>5, <1>6 DEF TypeInv

-----------------------------------------------------------------------------
(***************************************************************************)
(* The steps of the local server, one case per kind.                       *)
(***************************************************************************)
LEMMA NextCases ==
  ASSUME TypeInv, [Next]_vars
  PROVE  \/ \E d \in Events :
              \/ \E inst \in Instance : \E ses : Continues(d, inst, ses)
              \/ SkipDuplicate(d) \/ RefuseStart(d)
              \/ SlackPosts(d) \/ Wait(d)
              \/ GitHubFiles(d) \/ GitHubRelates(d) \/ IssueFiled(d)
              \/ SlackUpdates(d) \/ Complete(d) \/ Raise(d)
              \/ UserStep(d) \/ PressReject(d)
         \/ Drops
         \/ UNCHANGED vars
<1>1. ASSUME NEW d \in Events,
             StartWorkflow(d) \/ Resume(d) \/ AgentAnswers(d)
      PROVE  \E inst \in Instance : \E ses : Continues(d, inst, ses)
  BY <1>1, StartContinues, ResumeContinues, AnswerContinues
<1>2. CASE \E d \in Events : TaskStep(d)
  BY <1>1, <1>2 DEF TaskStep
<1>3. CASE ~ \E d \in Events : TaskStep(d)
  BY <1>3 DEF Next, Drops
<1> QED
  BY <1>2, <1>3

LEMMA NextKeepsTypeInv ==
  TypeInv /\ [Next]_vars => TypeInv'
<1> SUFFICES ASSUME TypeInv, [Next]_vars PROVE TypeInv'
  OBVIOUS
<1>1. CASE UNCHANGED vars
  <2>1. TypeOK' /\ IdInv' /\ EventInv'
    BY <1>1 DEF vars, stores, users, TypeInv, TypeOK, IdInv, EventInv
  <2>2. LastInv' /\ \A c \in Events : TaskInv(c)'
    BY <1>1
    DEF vars, stores, users, TypeInv, LastInv, Ended, TaskInv, Awaits,
        Suspended, Buttons
  <2>3. QED
    BY <2>1, <2>2 DEF TypeInv
<1> QED
  BY <1>1, NextCases, ContinuesKeepsTypeInv, SkipDuplicateKeepsTypeInv,
     RefuseStartKeepsTypeInv, SlackPostsKeepsTypeInv, WaitKeepsTypeInv,
     GitHubFilesKeepsTypeInv, GitHubRelatesKeepsTypeInv,
     IssueFiledKeepsTypeInv, SlackUpdatesKeepsTypeInv, CompleteKeepsTypeInv,
     RaiseKeepsTypeInv, UserStepKeepsTypeInv, DropsKeepsTypeInv

LEMMA InitTypeInv == Init => TypeInv
<1> SUFFICES ASSUME Init PROVE TypeInv
  OBVIOUS
<1>1. TypeOK
  BY StatesOfTask, LocalAssumption DEF Init, TypeOK
<1>2. IdInv /\ EventInv /\ LastInv /\ \A d \in Events : TaskInv(d)
  BY DEF Init, IdInv, EventInv, LastInv, TaskInv, Awaits, Suspended,
     NotStarted
<1> QED
  BY <1>1, <1>2 DEF TypeInv

LEMMA LocalTypeInv == Spec => []TypeInv
  BY InitTypeInv, NextKeepsTypeInv, PTL DEF Spec

(***************************************************************************)
(* Every variable of the local server keeps its type.                      *)
(***************************************************************************)
THEOREM LocalTypes == Spec => []TypeOK
<1>1. TypeInv => TypeOK
  BY DEF TypeInv
<1> QED
  BY <1>1, LocalTypeInv, PTL

-----------------------------------------------------------------------------
(***************************************************************************)
(* What the local server promises: each property of the run LocalServer    *)
(* follows from an inductive invariant of its own over TypeInv.            *)
(***************************************************************************)

-----------------------------------------------------------------------------
(***************************************************************************)
(* One issue for an event: the task that files it has come past filing     *)
(* when it has, and never goes back.                                       *)
(***************************************************************************)
BeforeFiling == {"none", "agent", "posting", "posted", "filing"}

IssueInv ==
  /\ OneIssuePerEvent
  /\ \A i \in 1 .. Len(issues) : task[issues[i].ev].pc \notin BeforeFiling

(* a step that files nothing and takes no task back *)
LEMMA NothingFiled ==
  ASSUME TypeInv, IssueInv, NEW d \in Events, UNCHANGED issues, Others(d),
         task'[d].pc \in BeforeFiling => task[d].pc \in BeforeFiling
  PROVE  IssueInv'
<1>1. ASSUME NEW i \in 1 .. Len(issues) PROVE issues[i].ev \in Events
  <2>1. issues[i] \in Issue
    BY <1>1, ElementOfSeq DEF TypeInv, TypeOK
  <2>2. QED
    BY <2>1 DEF Issue
<1> QED
  BY <1>1 DEF IssueInv, OneIssuePerEvent, Others

LEMMA NextKeepsIssueInv ==
  TypeInv /\ IssueInv /\ [Next]_vars => IssueInv'
<1> SUFFICES ASSUME TypeInv, IssueInv, [Next]_vars PROVE IssueInv'
  OBVIOUS
<1>1. CASE UNCHANGED <<issues, task>>
  BY <1>1 DEF IssueInv, OneIssuePerEvent
<1>2. ASSUME NEW d \in Events, NEW inst \in Instance, NEW ses,
             Continues(d, inst, ses)
      PROVE  IssueInv'
  <2>1. task[d].pc \in BeforeFiling /\ Others(d) /\ issues' = issues
    BY <1>2, ProceedOutcome DEF Continues, TypeInv, BeforeFiling
  <2>2. QED
    BY <2>1, NothingFiled
<1>3. ASSUME NEW d \in Events, RefuseStart(d) PROVE IssueInv'
  <2>1. /\ task'[d].pc = "ended" /\ Others(d) /\ issues' = issues
    BY <1>3, EndType DEF RefuseStart, Begins, TypeInv
  <2>2. QED
    BY <2>1, NothingFiled DEF BeforeFiling
<1>4. ASSUME NEW d \in Events, SlackPosts(d) PROVE IssueInv'
  <2>1. /\ task[d].pc = "posting" /\ issues' = issues
        /\ \A c \in Events : c # d => task'[c] = task[c]
    BY <1>4 DEF SlackPosts, Awaits, Await, TypeInv, TypeOK
  <2>2. QED
    BY <2>1, NothingFiled DEF BeforeFiling, Others
<1>5. ASSUME NEW d \in Events, Wait(d) PROVE IssueInv'
  <2>1. /\ task'[d].pc = "ended" /\ Others(d) /\ issues' = issues
    BY <1>5, WaitType
  <2>2. QED
    BY <2>1, NothingFiled DEF BeforeFiling
<1>6. ASSUME NEW d \in Events, GitHubFiles(d) PROVE IssueInv'
  <2> DEFINE new == [ev |-> d, wf |-> task[d].wf,
                     draft |-> task[d].draft, relation |-> "none"]
  <2>1. task[d].pc = "filing" /\ task[d].wf \in WorkflowIds /\ TypeOK
    BY <1>6 DEF GitHubFiles, TypeInv, TaskInv, Suspended, Awaits
  <2>2. /\ new \in Issue /\ issues' = Append(issues, new)
        /\ Len(issues') = Len(issues) + 1
        /\ Others(d) /\ task'[d].pc \in {"filed", "relating"}
    BY <1>6, <2>1, GitHubFilesType
  <2>3. issues \in Seq(Issue) /\ Len(issues) \in Nat
    BY <2>1 DEF TypeOK
  <2>4. /\ \A i \in 1 .. Len(issues) : issues'[i] = issues[i]
        /\ issues'[Len(issues) + 1] = new /\ new.ev = d
    BY <2>2, <2>3
  <2> HIDE DEF new
  <2>5. ASSUME NEW i \in 1 .. Len(issues)
        PROVE  issues[i].ev \in Events /\ issues[i].ev # d
    <3>1. issues[i] \in Issue
      BY <2>3, ElementOfSeq
    <3>2. QED
      BY <2>1, <3>1 DEF Issue, IssueInv, BeforeFiling
  <2>6. OneIssuePerEvent'
    <3>1. SUFFICES ASSUME NEW i \in 1 .. Len(issues) + 1,
                          NEW j \in 1 .. Len(issues) + 1,
                          issues'[i].ev = issues'[j].ev
                   PROVE  i = j
      BY <2>2 DEF OneIssuePerEvent
    <3>2. CASE i \in 1 .. Len(issues) /\ j \in 1 .. Len(issues)
      BY <2>4, <3>1, <3>2 DEF IssueInv, OneIssuePerEvent
    <3>3. CASE i = Len(issues) + 1 \/ j = Len(issues) + 1
      BY <2>3, <2>4, <2>5, <3>1, <3>3
    <3>4. QED
      BY <2>3, <3>2, <3>3
  <2>7. \A i \in 1 .. Len(issues) + 1 :
          task'[issues'[i].ev].pc \notin BeforeFiling
    BY <2>2, <2>3, <2>4, <2>5 DEF IssueInv, Others, BeforeFiling
  <2>8. QED
    BY <2>2, <2>6, <2>7 DEF IssueInv
<1>7. ASSUME NEW d \in Events, GitHubRelates(d) PROVE IssueInv'
  <2>1. /\ Len(issues') = Len(issues) /\ Others(d) /\ task'[d].pc = "filed"
        /\ \A j \in 1 .. Len(issues) : issues'[j].ev = issues[j].ev
    BY <1>7, GitHubRelatesType
  <2>2. ASSUME NEW i \in 1 .. Len(issues) PROVE issues[i].ev \in Events
    <3>1. issues[i] \in Issue
      BY <2>2, ElementOfSeq DEF TypeInv, TypeOK
    <3>2. QED
      BY <3>1 DEF Issue
  <2>3. QED
    BY <2>1, <2>2 DEF IssueInv, OneIssuePerEvent, Others, BeforeFiling
<1>8. ASSUME NEW d \in Events, IssueFiled(d) PROVE IssueInv'
  <2>1. task'[d].pc = "notifying" /\ Others(d) /\ issues' = issues
    BY <1>8, IssueFiledType
  <2>2. QED
    BY <2>1, NothingFiled DEF BeforeFiling
<1>9. ASSUME NEW d \in Events, SlackUpdates(d) PROVE IssueInv'
  <2>1. task'[d].pc = "notified" /\ Others(d) /\ issues' = issues
    BY <1>9, SlackUpdatesType
  <2>2. QED
    BY <2>1, NothingFiled DEF BeforeFiling
<1>10. ASSUME NEW d \in Events, Complete(d) PROVE IssueInv'
  <2>1. task'[d].pc = "ended" /\ Others(d) /\ issues' = issues
    BY <1>10, CompleteType
  <2>2. QED
    BY <2>1, NothingFiled DEF BeforeFiling
<1>11. ASSUME NEW d \in Events, Raise(d) PROVE IssueInv'
  <2>1. task'[d].pc = "raised" /\ Others(d) /\ issues' = issues
    BY <1>11, RaiseType
  <2>2. QED
    BY <2>1, NothingFiled DEF BeforeFiling
<1>12. CASE \E d \in Events :
              SkipDuplicate(d) \/ UserStep(d) \/ PressReject(d)
  BY <1>1, <1>12, UserStepType DEF SkipDuplicate
<1>13. CASE Drops \/ UNCHANGED vars
  BY <1>1, <1>13, DropsType DEF vars
<1> QED
  BY <1>2, <1>3, <1>4, <1>5, <1>6, <1>7, <1>8, <1>9, <1>10, <1>11, <1>12,
     <1>13, NextCases

(***************************************************************************)
(* However often Slack delivers an interaction, and whatever the tasks of  *)
(* the other events do meanwhile, an event files at most one issue.        *)
(***************************************************************************)
THEOREM LocalOneIssuePerEvent == Spec => []OneIssuePerEvent
<1>1. Init => IssueInv
  BY DEF Init, IssueInv, OneIssuePerEvent
<1>2. IssueInv => OneIssuePerEvent
  BY DEF IssueInv
<1> QED
  BY <1>1, <1>2, LocalTypeInv, NextKeepsIssueInv, PTL DEF Spec

-----------------------------------------------------------------------------
(***************************************************************************)
(* Only an acceptance leads a task to GitHub, and a task posts its message *)
(* where none was.                                                         *)
(***************************************************************************)
FilingInv ==
  \A d \in Events :
    /\ Awaits(d, "filing") =>
         /\ event[d] # None /\ event[d].type = "accept"
         /\ event[d].wf = task[d].wf
    /\ message[d] # None => task[d].pc \notin {"none", "agent", "posting"}

(* a step that moves task d past what FilingInv says of it *)
LEMMA PastFiling ==
  ASSUME FilingInv, NEW d \in Events, Others(d), UNCHANGED event,
         task'[d].pc \notin {"none", "agent", "posting", "filing"},
         \A c \in Events : c # d /\ message'[c] # None => message[c] # None
  PROVE  FilingInv'
  BY DEF FilingInv, Others, Awaits

LEMMA NextKeepsFilingInv ==
  TypeInv /\ FilingInv /\ [Next]_vars => FilingInv'
<1> SUFFICES ASSUME TypeInv, FilingInv, [Next]_vars PROVE FilingInv'
  OBVIOUS
<1>1. CASE UNCHANGED <<event, task, message>>
  BY <1>1 DEF FilingInv, Awaits
<1>2. ASSUME NEW d \in Events, NEW inst \in Instance, NEW ses,
             Continues(d, inst, ses)
      PROVE  FilingInv'
  <2>1. /\ Others(d) /\ Outcome(d, inst, ses)
        /\ UNCHANGED <<event, message>> /\ event[d] # None
        /\ task[d].pc \in {"none", "agent"}
        /\ inst.step = "create_github_issue" =>
             event[d].type = "accept" /\ event[d].wf = inst.id
    BY <1>2, ProceedOutcome DEF Continues, TypeInv
  <2>2. Awaits(d, "filing")' =>
          task'[d].wf = inst.id /\ inst.step = "create_github_issue"
    BY <2>1 DEF Outcome, Failed, Suspends, GivesUp, Stops, Awaits
  <2>3. message[d] = None
    BY <2>1 DEF FilingInv
  <2>4. QED
    BY <2>1, <2>2, <2>3 DEF FilingInv, Others, Awaits
<1>3. ASSUME NEW d \in Events,
             \/ RefuseStart(d) \/ Wait(d) \/ IssueFiled(d) \/ SlackUpdates(d)
             \/ Complete(d) \/ Raise(d) \/ GitHubRelates(d)
      PROVE  FilingInv'
  <2>1. CASE RefuseStart(d)
    BY <2>1, EndType, PastFiling DEF RefuseStart, Begins, TypeInv
  <2>2. CASE Wait(d)
    <3>1. task'[d].pc = "ended" /\ Others(d) /\ UNCHANGED <<event, message>>
      BY <2>2, WaitType
    <3>2. QED
      BY <3>1, PastFiling
  <2>3. CASE IssueFiled(d)
    BY <2>3, IssueFiledType, PastFiling
  <2>4. CASE SlackUpdates(d)
    BY <2>4, SlackUpdatesType, PastFiling
  <2>5. CASE Complete(d)
    BY <2>5, CompleteType, PastFiling
  <2>6. CASE Raise(d)
    BY <2>6, RaiseType, PastFiling
  <2>7. CASE GitHubRelates(d)
    BY <2>7, GitHubRelatesType, PastFiling
  <2>8. QED
    BY <1>3, <2>1, <2>2, <2>3, <2>4, <2>5, <2>6, <2>7
<1>4. ASSUME NEW d \in Events, SlackPosts(d) PROVE FilingInv'
  <2>1. /\ event' = event /\ Others(d) /\ task'[d].pc = "posted"
        /\ \A c \in Events : c # d => message'[c] = message[c]
    BY <1>4
    DEF SlackPosts, users, Awaits, Await, Others, TypeInv, TypeOK, Task
  <2>2. QED
    BY <2>1, PastFiling
<1>5. ASSUME NEW d \in Events, GitHubFiles(d) PROVE FilingInv'
  <2>1. task[d].pc = "filing" /\ task[d].wf \in WorkflowIds /\ TypeOK
    BY <1>5 DEF GitHubFiles, TypeInv, TaskInv, Suspended, Awaits
  <2>2. /\ UNCHANGED <<event, message>> /\ Others(d)
        /\ task'[d].pc \in {"filed", "relating"}
    BY <1>5, <2>1, GitHubFilesType
  <2>3. QED
    BY <2>2, PastFiling
<1>6. ASSUME NEW d \in Events, UserStep(d) \/ PressReject(d) PROVE FilingInv'
  <2>1. /\ UNCHANGED <<task, message>>
        /\ event' = event \/ \E e \in Event : Sends(d, e)
    BY <1>6, UserStepType
  <2>2. \A c \in Events : event[c] # None => event'[c] = event[c]
    <3>1. CASE event' = event
      BY <3>1
    <3>2. CASE \E e \in Event : Sends(d, e)
      BY <3>2 DEF Sends, TypeInv, TypeOK
    <3>3. QED
      BY <2>1, <3>1, <3>2
  <2>3. QED
    BY <2>1, <2>2 DEF FilingInv, Awaits
<1>7. CASE \/ \E d \in Events : SkipDuplicate(d)
           \/ Drops \/ UNCHANGED vars
  BY <1>1, <1>7, DropsType DEF SkipDuplicate, vars, users
<1> QED
  BY <1>2, <1>3, <1>4, <1>5, <1>6, <1>7, NextCases

LocalInv == TypeInv /\ IssueInv /\ FilingInv

LEMMA LocalInvHolds == Spec => []LocalInv
<1>1. Init => IssueInv /\ FilingInv
  BY DEF Init, IssueInv, OneIssuePerEvent, FilingInv, Awaits, NotStarted
<1> QED
  BY <1>1, LocalTypeInv, NextKeepsIssueInv, NextKeepsFilingInv, PTL
  DEF Spec, LocalInv

-----------------------------------------------------------------------------
(***************************************************************************)
(* Each step of the local server is a step of IssueFiling, or unseen by    *)
(* it.                                                                     *)
(***************************************************************************)
LEMMA UnseenLocally ==
  ASSUME UNCHANGED <<message, event, issues>>
  PROVE  UNCHANGED Filing!vars
  BY DEF Filing!vars, Proposed, Accepted, FiledIssues

LEMMA LocalFiledIssues ==
  ASSUME TypeOK
  PROVE  /\ FiledIssues \in Seq([press : Events, wf : WorkflowIds])
         /\ Len(FiledIssues) = Len(issues)
         /\ \A i \in 1 .. Len(issues) :
              FiledIssues[i] = [press |-> issues[i].ev, wf |-> issues[i].wf]
<1>1. issues \in Seq(Issue)
  BY DEF TypeOK
<1> QED
  BY <1>1, FiledOfIssues DEF FiledIssues

LEMMA SlackPostsProposes ==
  ASSUME LocalInv, NEW d \in Events, SlackPosts(d)
  PROVE  UNCHANGED Filing!vars \/ \E w \in WorkflowIds : Filing!Propose(w)
<1> DEFINE msg == [wf |-> task[d].wf, step |-> task[d].step,
                   draft |-> task[d].draft, live |-> TRUE]
           w   == task[d].wf
<1>1. /\ task[d].pc = "posting" /\ message' = [message EXCEPT ![d] = msg]
      /\ UNCHANGED <<event, issues>>
  BY DEF SlackPosts, Awaits, users
<1>2. /\ message[d] = None /\ w \in WorkflowIds
      /\ message \in [Events -> Message \union {None}]
      /\ task[d].step \in WaitSteps /\ task[d].draft \in MaybeEvent
  BY <1>1
  DEF LocalInv, FilingInv, TypeInv, TypeOK, TaskInv, Awaits, Suspended, Task
<1>3. msg \in Message /\ msg.wf = w /\ msg.step = task[d].step
  BY <1>2 DEF Message
<1>4. msg # None
  BY <1>3, NoneIsNoRecord
<1> HIDE DEF msg, w
<1>5. UNCHANGED <<Accepted, FiledIssues>>
  BY <1>1 DEF Accepted, FiledIssues
<1>6. CASE task[d].step = "wait_confirmation"
  <2>1. Proposed' = Proposed \union {w}
    BY <1>1, <1>2, <1>3, <1>4, <1>6 DEF Proposed
  <2>2. QED
    BY <1>2, <1>5, <2>1 DEF Filing!Propose
<1>7. CASE task[d].step # "wait_confirmation"
  <2>1. Proposed' = Proposed
    BY <1>1, <1>2, <1>3, <1>4, <1>7 DEF Proposed
  <2>2. QED
    BY <1>5, <2>1 DEF Filing!vars
<1> QED
  BY <1>6, <1>7

LEMMA SlackUpdatesUnseen ==
  ASSUME TypeInv, NEW d \in Events, SlackUpdates(d)
  PROVE  UNCHANGED Filing!vars
<1>1. /\ \A m \in Events :
           /\ message'[m] = None <=> message[m] = None
           /\ message[m] # None =>
                message'[m].wf = message[m].wf /\ message'[m].step = message[m].step
      /\ UNCHANGED <<event, issues>>
  BY SlackUpdatesType
<1>2. Proposed' = Proposed
  BY <1>1 DEF Proposed
<1> QED
  BY <1>1, <1>2 DEF Filing!vars, Accepted, FiledIssues

LEMMA GitHubRelatesUnseen ==
  ASSUME TypeInv, NEW d \in Events, GitHubRelates(d)
  PROVE  UNCHANGED Filing!vars
<1>1. /\ Len(issues') = Len(issues) /\ Len(issues) \in Nat
      /\ \A j \in 1 .. Len(issues) :
           issues'[j].ev = issues[j].ev /\ issues'[j].wf = issues[j].wf
      /\ UNCHANGED <<message, event>>
  <2>1. Len(issues) \in Nat
    BY DEF TypeInv, TypeOK
  <2>2. QED
    BY <2>1, GitHubRelatesType
<1>2. FiledIssues' = FiledIssues
  BY <1>1 DEF FiledIssues
<1> QED
  BY <1>1, <1>2 DEF Filing!vars, Proposed, Accepted

LEMMA GitHubFilesAcceptance ==
  ASSUME LocalInv, NEW d \in Events, GitHubFiles(d)
  PROVE  Filing!File(d)
<1> DEFINE new   == [ev |-> d, wf |-> task[d].wf,
                     draft |-> task[d].draft, relation |-> "none"]
           press == [press |-> d, wf |-> Accepted[d]]
<1>1. TypeOK /\ TypeInv /\ IssueInv /\ FilingInv
  BY DEF LocalInv, TypeInv
<1>2. task[d].pc = "filing" /\ task[d].wf \in WorkflowIds
  BY <1>1 DEF GitHubFiles, TypeInv, TaskInv, Suspended, Awaits
<1>3. /\ new \in Issue /\ new.ev = d /\ new.wf = task[d].wf
      /\ issues' = Append(issues, new)
      /\ issues' \in Seq(Issue) /\ Len(issues') = Len(issues) + 1
      /\ UNCHANGED <<event, message>>
  BY <1>1, <1>2, GitHubFilesType
<1>4. issues \in Seq(Issue) /\ Len(issues) \in Nat
  BY <1>1 DEF TypeOK
<1> HIDE DEF new
<1>5. /\ Accepted[d] = task[d].wf
      /\ press = [press |-> d, wf |-> task[d].wf]
      /\ press \in [press : Events, wf : WorkflowIds]
  BY <1>1, <1>2 DEF FilingInv, Awaits, Accepted
<1>6. \A i \in 1 .. Len(issues) : issues[i].ev # d
  BY <1>1, <1>2 DEF IssueInv, BeforeFiling
<1>7. /\ FiledIssues \in Seq([press : Events, wf : WorkflowIds])
      /\ Len(FiledIssues) = Len(issues)
      /\ \A i \in 1 .. Len(issues) :
           FiledIssues[i] = [press |-> issues[i].ev, wf |-> issues[i].wf]
  BY <1>1, LocalFiledIssues
<1>8. \A i \in 1 .. Len(FiledIssues) : FiledIssues[i].press # d
  <2>1. ASSUME NEW i \in 1 .. Len(issues)
        PROVE  FiledIssues[i].press = issues[i].ev
    <3>1. FiledIssues[i] = [press |-> issues[i].ev, wf |-> issues[i].wf]
      BY <1>7
    <3>2. QED
      BY <3>1
  <2>2. QED
    BY <1>6, <1>7, <2>1
<1>9. /\ \A i \in 1 .. Len(issues) : issues'[i] = issues[i]
      /\ issues'[Len(issues) + 1] = new
  BY <1>3, <1>4
<1> DEFINE q == issues'
<1>10. q \in Seq(Issue) /\ Len(q) = Len(issues) + 1
  BY <1>3
<1>11. FiledIssues' = [i \in 1 .. Len(q) |->
                         [press |-> q[i].ev, wf |-> q[i].wf]]
  BY DEF FiledIssues
<1>12. /\ \A i \in 1 .. Len(issues) : FiledIssues'[i] = FiledIssues[i]
       /\ FiledIssues'[Len(issues) + 1] = press
  BY <1>3, <1>4, <1>5, <1>7, <1>9, <1>11
<1> HIDE DEF q, press
<1> DEFINE filed  == FiledIssues'
           longer == Append(FiledIssues, press)
<1>13. filed \in Seq([press : Events, wf : WorkflowIds])
       /\ Len(filed) = Len(issues) + 1
  BY <1>10, <1>11, FiledOfIssues
<1>14. /\ longer \in Seq([press : Events, wf : WorkflowIds])
       /\ Len(longer) = Len(issues) + 1
       /\ \A i \in 1 .. Len(issues) : longer[i] = FiledIssues[i]
       /\ longer[Len(issues) + 1] = press
  BY <1>5, <1>7, AppendProperties
<1>15. \A i \in 1 .. Len(issues) + 1 : filed[i] = longer[i]
  BY <1>4, <1>12, <1>14
<1> HIDE DEF filed, longer
<1>16. filed = longer
  BY <1>13, <1>14, <1>15, SeqEqual
<1>17. UNCHANGED <<Proposed, Accepted>>
  BY <1>3 DEF Proposed, Accepted
<1>18. Accepted[d] # None
  BY <1>2, <1>5, NoneAssumption
<1> QED
  BY <1>8, <1>16, <1>17, <1>18 DEF Filing!File, filed, longer, press

LEMMA UserAcceptsLocally ==
  ASSUME TypeInv, NEW d \in Events, UserStep(d) \/ PressReject(d)
  PROVE  UNCHANGED Filing!vars \/ \E w \in WorkflowIds : Filing!Accept(d, w)
<1>1. /\ UNCHANGED <<message, issues>>
      /\ event' = event \/ \E e \in Event : Sends(d, e)
  BY UserStepType
<1>2. CASE event' = event
  BY <1>1, <1>2, UnseenLocally
<1>3. CASE \E e \in Event : Sends(d, e)
  <2>1. PICK e \in Event : Sends(d, e)
    BY <1>3
  <2>2. /\ UNCHANGED <<Proposed, FiledIssues>>
        /\ event \in [Events -> Event \union {None}]
        /\ event[d] = None /\ event' = [event EXCEPT ![d] = e]
        /\ e # None /\ Accepted[d] = None
    BY <1>1, <2>1, NoneIsNoRecord
    DEF Proposed, FiledIssues, Accepted, Sends, TypeInv, TypeOK
  <2>3. CASE e.type = "accept"
    <3>1. Accepted' = [Accepted EXCEPT ![d] = e.wf]
      BY <2>2, <2>3 DEF Accepted
    <3>2. e.wf \in WorkflowIds
      BY <2>1, <2>3 DEF Sends, EventOf
    <3>3. e.wf \in Proposed
      BY <2>1, <2>3, <3>2 DEF Sends, Buttons, Proposed
    <3>4. QED
      BY <2>2, <3>1, <3>2, <3>3 DEF Filing!Accept
  <2>4. CASE e.type # "accept"
    <3>1. Accepted' = Accepted
      BY <2>2, <2>4 DEF Accepted
    <3>2. QED
      BY <2>2, <3>1 DEF Filing!vars
  <2>5. QED
    BY <2>3, <2>4
<1> QED
  BY <1>1, <1>2, <1>3

LEMMA NextFilesLocally ==
  LocalInv /\ [Next]_vars => [Filing!Next]_(Filing!vars)
<1> SUFFICES ASSUME LocalInv, [Next]_vars
             PROVE  [Filing!Next]_(Filing!vars)
  OBVIOUS
<1> USE DEF Filing!Next
<1>1. CASE UNCHANGED <<message, event, issues>>
  BY <1>1, UnseenLocally
<1>2. TypeInv
  BY DEF LocalInv
<1>3. ASSUME NEW d \in Events,
             \/ \E inst \in Instance : \E ses : Continues(d, inst, ses)
             \/ SkipDuplicate(d) \/ RefuseStart(d) \/ Wait(d)
             \/ IssueFiled(d) \/ Complete(d) \/ Raise(d)
      PROVE  UNCHANGED <<message, event, issues>>
  BY <1>3
  DEF Continues, SkipDuplicate, RefuseStart, Begins, Wait, IssueFiled,
      Complete, Raise, users
<1>4. ASSUME NEW d \in Events, SlackPosts(d)
      PROVE  [Filing!Next]_(Filing!vars)
  BY <1>4, SlackPostsProposes
<1>5. ASSUME NEW d \in Events, SlackUpdates(d) \/ GitHubRelates(d)
      PROVE  [Filing!Next]_(Filing!vars)
  BY <1>2, <1>5, SlackUpdatesUnseen, GitHubRelatesUnseen
<1>6. ASSUME NEW d \in Events, GitHubFiles(d)
      PROVE  [Filing!Next]_(Filing!vars)
  BY <1>6, GitHubFilesAcceptance
<1>7. ASSUME NEW d \in Events, UserStep(d) \/ PressReject(d)
      PROVE  [Filing!Next]_(Filing!vars)
  BY <1>2, <1>7, UserAcceptsLocally
<1>8. CASE Drops \/ UNCHANGED vars
  BY <1>1, <1>2, <1>8, DropsType DEF vars, users
<1> QED
  BY <1>1, <1>2, <1>3, <1>4, <1>5, <1>6, <1>7, <1>8, NextCases

(***************************************************************************)
(* The local server implements IssueFiling: it files an issue only for an  *)
(* acceptance of a draft that was proposed for that workflow, and never    *)
(* twice for one acceptance, over any interleaving of its tasks.           *)
(***************************************************************************)
THEOREM LocalFilesAsPromised == Spec => FilesAsPromised
<1>1. Init => Filing!Init
  BY DEF Init, Filing!Init, Proposed, Accepted, FiledIssues
<1> QED
  BY <1>1, NextFilesLocally, LocalInvHolds, PTL
  DEF Spec, FilesAsPromised, Filing!Spec

-----------------------------------------------------------------------------
(***************************************************************************)
(* The status of a workflow.  WAITING, its last message has its buttons,   *)
(* and no task is about to take them off; RUNNING, a task that has not     *)
(* stopped yet runs it, or raised.                                         *)
(***************************************************************************)
Waits(w) == store[w] # None /\ store[w].status = "WAITING"

Runs(w) == store[w] # None /\ store[w].status = "RUNNING"

RunningPcs ==
  {"agent", "posting", "posted", "filing", "relating", "filed", "raised"}

StatusInv ==
  /\ \A w \in WorkflowIds :
       Waits(w) => store[w].messageTs # None /\ Buttons(store[w].messageTs, w)
  /\ \A d \in Events, w \in WorkflowIds :
       Awaits(d, "notifying") /\ task[d].ts # None /\ Waits(w) =>
         store[w].messageTs # task[d].ts
  /\ \A w \in WorkflowIds :
       Runs(w) => \E d \in Events : task[d].wf = w /\ task[d].pc \in RunningPcs

(* a step of task d that leaves objects and messages alone *)
LEMMA StatusUntouched ==
  ASSUME StatusInv, NEW d \in Events, Others(d), UNCHANGED <<store, message>>,
         task'[d].pc # "notifying",
         task[d].pc \in RunningPcs =>
           task'[d].pc \in RunningPcs /\ task'[d].wf = task[d].wf
  PROVE  StatusInv'
  BY DEF StatusInv, Waits, Runs, Buttons, Awaits, Others

LEMMA ContinuesKeepsStatusInv ==
  ASSUME TypeInv, StatusInv, NEW d \in Events, NEW inst \in Instance, NEW ses,
         Continues(d, inst, ses)
  PROVE  StatusInv'
<1>1. /\ Others(d) /\ Outcome(d, inst, ses) /\ message' = message
      /\ task[d].pc \in {"none", "agent"}
      /\ task[d].pc = "agent" => task[d].wf = inst.id
      /\ New(inst, ses) \/ Old(inst, ses)
  BY ProceedOutcome DEF Continues, TypeInv
<1>2. PICK status \in Status :
        /\ Put(WithStatus(inst, status))
        /\ status \in {"FAILED", "COMPLETED", inst.status}
        /\ status = "RUNNING" =>
             task'[d].wf = inst.id /\ task'[d].pc \in RunningPcs
        /\ task'[d].pc = "notifying" =>
             task'[d].ts = inst.messageTs /\ status = "COMPLETED"
  <2>1. WithStatus(inst, inst.status) = inst /\ inst.status \in Status
    BY DEF WithStatus, Instance
  <2>2. CASE Failed(d, inst, ses)
    BY <2>2 DEF Failed, Status
  <2>3. CASE Suspends(d, inst, ses) \/ GivesUp(d, inst, ses)
    BY <2>1, <2>3 DEF Suspends, GivesUp, RunningPcs
  <2>4. CASE Stops(d, inst)
    BY <2>4 DEF Stops, Status
  <2>5. QED
    BY <1>1, <2>2, <2>3, <2>4 DEF Outcome
<1> DEFINE new == WithStatus(inst, status)
<1>3. /\ new \in Instance /\ new.messageTs = inst.messageTs
      /\ new.status = status /\ new.id = inst.id
  BY StatusType
<1> HIDE DEF new
<1>4. /\ inst.id \in WorkflowIds /\ store'[inst.id] = new
      /\ \A w \in WorkflowIds : w # inst.id => store'[w] = store[w]
  BY <1>2, <1>3, PutType DEF new, TypeInv
<1>5. status = "WAITING" =>
        Waits(inst.id) /\ store[inst.id].messageTs = inst.messageTs
  BY <1>1, <1>2, <1>4, NoneIsNoRecord DEF New, Old, Waits
<1>6. \A w \in WorkflowIds :
        Waits(w)' => Waits(w) /\ store'[w].messageTs = store[w].messageTs
  BY <1>3, <1>4, <1>5 DEF Waits
<1>7. \A w \in WorkflowIds :
        Waits(w)' => store'[w].messageTs # None /\ Buttons(store[w].messageTs, w)'
  BY <1>1, <1>6 DEF StatusInv, Buttons
<1>8. ASSUME NEW c \in Events, NEW w \in WorkflowIds,
             Awaits(c, "notifying")', task'[c].ts # None, Waits(w)'
      PROVE  store'[w].messageTs # task'[c].ts
  <2>1. CASE c # d
    BY <1>1, <1>6, <1>8, <2>1 DEF StatusInv, Awaits, Others
  <2>2. CASE c = d
    <3>1. task'[d].ts = inst.messageTs /\ status = "COMPLETED"
      BY <1>2, <1>8, <2>2 DEF Awaits
    <3>2. w # inst.id
      BY <1>3, <1>4, <1>8, <3>1 DEF Waits
    <3>3. inst.messageTs # None => message[inst.messageTs].wf = inst.id
      BY <1>1, <1>4, NoneIsNoRecord DEF New, Old, TypeInv, LastInv
    <3>4. message[store[w].messageTs].wf = w
      BY <1>6, <1>8 DEF StatusInv, Buttons
    <3>5. QED
      BY <1>6, <1>8, <2>2, <3>1, <3>2, <3>3, <3>4
  <2>3. QED
    BY <2>1, <2>2
<1>9. ASSUME NEW w \in WorkflowIds, Runs(w)'
      PROVE  \E c \in Events : task'[c].wf = w /\ task'[c].pc \in RunningPcs
  <2>1. CASE w = inst.id
    BY <1>2, <1>3, <1>4, <1>9, <2>1 DEF Runs
  <2>2. CASE w # inst.id
    <3>1. Runs(w)
      BY <1>4, <1>9, <2>2 DEF Runs
    <3>2. PICK c \in Events : task[c].wf = w /\ task[c].pc \in RunningPcs
      BY <3>1 DEF StatusInv
    <3>3. c # d
      BY <1>1, <2>2, <3>2 DEF RunningPcs
    <3>4. QED
      BY <1>1, <3>2, <3>3 DEF Others
  <2>3. QED
    BY <2>1, <2>2
<1> QED
  BY <1>7, <1>8, <1>9 DEF StatusInv

LEMMA WaitKeepsStatusInv ==
  ASSUME TypeInv, StatusInv, NEW d \in Events, Wait(d)
  PROVE  StatusInv'
<1> DEFINE w == task[d].wf
<1>1. /\ task[d].pc = "posted" /\ w \in WorkflowIds /\ Buttons(d, w)
      /\ store'[w].messageTs = d /\ store'[w].status = "WAITING"
      /\ \A v \in WorkflowIds : v # w => store'[v] = store[v]
      /\ task'[d].pc = "ended" /\ Others(d) /\ message' = message
  <2> DEFINE new == [Obj(d) EXCEPT !.messageTs = d, !.status = "WAITING"]
  <2>1. /\ task[d].pc = "posted" /\ w \in WorkflowIds /\ Buttons(d, w)
        /\ new.messageTs = d /\ new.status = "WAITING" /\ store'[w] = new
        /\ \A v \in WorkflowIds : v # w => store'[v] = store[v]
        /\ task'[d].pc = "ended" /\ Others(d) /\ message' = message
    BY WaitType
  <2> HIDE DEF new
  <2>2. QED
    BY <2>1
<1> HIDE DEF w
<1>2. d # None
  BY NoneAssumption
<1>3. \A v \in WorkflowIds :
        Waits(v)' => store'[v].messageTs # None /\ Buttons(store[v].messageTs, v)'
  BY <1>1, <1>2 DEF StatusInv, Waits, Buttons
<1>4. ASSUME NEW c \in Events, NEW v \in WorkflowIds,
             Awaits(c, "notifying")', task'[c].ts # None, Waits(v)'
      PROVE  store'[v].messageTs # task'[c].ts
  <2>1. c # d /\ Awaits(c, "notifying") /\ task'[c] = task[c]
    BY <1>1, <1>4 DEF Awaits, Others
  <2>2. CASE v = w
    <3>1. Ended(task[c].ts)
      BY <1>4, <2>1 DEF TypeInv, TaskInv
    <3>2. QED
      BY <1>1, <2>1, <2>2, <3>1 DEF Ended
  <2>3. CASE v # w
    BY <1>1, <1>4, <2>1, <2>3 DEF StatusInv, Waits
  <2>4. QED
    BY <2>2, <2>3
<1>5. ASSUME NEW v \in WorkflowIds, Runs(v)'
      PROVE  \E c \in Events : task'[c].wf = v /\ task'[c].pc \in RunningPcs
  <2>1. v # w /\ Runs(v)
    BY <1>1, <1>5 DEF Runs
  <2>2. PICK c \in Events : task[c].wf = v /\ task[c].pc \in RunningPcs
    BY <2>1 DEF StatusInv
  <2>3. QED
    BY <1>1, <2>1, <2>2 DEF Others, w
<1> QED
  BY <1>3, <1>4, <1>5 DEF StatusInv

LEMMA IssueFiledKeepsStatusInv ==
  ASSUME TypeInv, StatusInv, NEW d \in Events, IssueFiled(d)
  PROVE  StatusInv'
<1> DEFINE w == task[d].wf
<1>1. /\ task[d].pc = "filed" /\ w \in WorkflowIds /\ store[w] # None
      /\ store'[w].status = "COMPLETED"
      /\ \A v \in WorkflowIds : v # w => store'[v] = store[v]
      /\ task'[d].ts = store[w].messageTs /\ Others(d) /\ message' = message
  BY IssueFiledType
<1> HIDE DEF w
<1>2. \A v \in WorkflowIds :
        Waits(v)' \/ Runs(v)' => v # w /\ store'[v] = store[v]
  BY <1>1 DEF Waits, Runs
<1>3. \A v \in WorkflowIds :
        Waits(v)' => store'[v].messageTs # None /\ Buttons(store[v].messageTs, v)'
  BY <1>1, <1>2 DEF StatusInv, Waits, Buttons
<1>4. ASSUME NEW c \in Events, NEW v \in WorkflowIds,
             Awaits(c, "notifying")', task'[c].ts # None, Waits(v)'
      PROVE  store'[v].messageTs # task'[c].ts
  <2>1. CASE c # d
    BY <1>1, <1>2, <1>4, <2>1 DEF StatusInv, Waits, Awaits, Others
  <2>2. CASE c = d
    <3>1. message[store[v].messageTs].wf = v
      BY <1>2, <1>4 DEF StatusInv, Waits, Buttons
    <3>2. store[w].messageTs # None => message[store[w].messageTs].wf = w
      BY <1>1 DEF TypeInv, LastInv
    <3>3. QED
      BY <1>1, <1>2, <1>4, <2>2, <3>1, <3>2
  <2>3. QED
    BY <2>1, <2>2
<1>5. ASSUME NEW v \in WorkflowIds, Runs(v)'
      PROVE  \E c \in Events : task'[c].wf = v /\ task'[c].pc \in RunningPcs
  <2>1. v # w /\ Runs(v)
    BY <1>2, <1>5 DEF Runs
  <2>2. PICK c \in Events : task[c].wf = v /\ task[c].pc \in RunningPcs
    BY <2>1 DEF StatusInv
  <2>3. QED
    BY <1>1, <2>1, <2>2 DEF Others, w
<1> QED
  BY <1>3, <1>4, <1>5 DEF StatusInv

LEMMA SlackPostsType ==
  ASSUME TypeInv, NEW d \in Events, SlackPosts(d)
  PROVE  /\ task[d].pc = "posting" /\ task[d].wf \in WorkflowIds
         /\ message'[d].wf = task[d].wf /\ message'[d].step = task[d].step
         /\ \A m \in Events : m # d => message'[m] = message[m]
         /\ Others(d)
         /\ task'[d].pc = "posted" /\ task'[d].wf = task[d].wf
         /\ UNCHANGED <<event, store, session, acquired, issues, budget>>
<1>1. /\ task[d].pc = "posting"
      /\ UNCHANGED <<event, store, session, acquired, issues, budget>>
  BY DEF SlackPosts, Awaits, stores, users
<1>2. task[d].wf \in WorkflowIds
  BY <1>1 DEF TypeInv, TaskInv, Suspended
<1>3. /\ message'[d].wf = task[d].wf /\ message'[d].step = task[d].step
      /\ \A m \in Events : m # d => message'[m] = message[m]
  BY DEF SlackPosts, TypeInv, TypeOK
<1>4. /\ Others(d) /\ task'[d].pc = "posted" /\ task'[d].wf = task[d].wf
  BY DEF SlackPosts, Await, Others, TypeInv, TypeOK, Task
<1> QED
  BY <1>1, <1>2, <1>3, <1>4

LEMMA SlackKeepsStatusInv ==
  ASSUME TypeInv, StatusInv, NEW d \in Events, SlackPosts(d) \/ SlackUpdates(d)
  PROVE  StatusInv'
<1>1. CASE SlackPosts(d)
  <2>1. /\ task[d].pc = "posting" /\ store' = store /\ Others(d)
        /\ task'[d].pc = "posted" /\ task'[d].wf = task[d].wf
        /\ \A m \in Events : m # d => message'[m] = message[m]
    BY <1>1, SlackPostsType
  <2>2. \A w \in WorkflowIds :
          Waits(w) => Ended(store[w].messageTs) /\ store[w].messageTs # d
    BY <2>1 DEF StatusInv, Waits, TypeInv, LastInv, Ended
  <2>3. \A w \in WorkflowIds :
          Waits(w) => message'[store[w].messageTs] = message[store[w].messageTs]
    BY <2>1, <2>2 DEF Ended
  <2>4. \A w \in WorkflowIds :
          Waits(w)' => store'[w].messageTs # None
                       /\ Buttons(store[w].messageTs, w)'
    BY <2>1, <2>3 DEF StatusInv, Waits, Buttons
  <2>5. QED
    BY <2>1, <2>4 DEF StatusInv, Waits, Runs, Awaits, Others, RunningPcs
<1>2. CASE SlackUpdates(d)
  <2>1. /\ task[d].pc = "notifying" /\ store' = store /\ Others(d)
        /\ task'[d].pc = "notified"
        /\ \A m \in Events : m # task[d].ts => message'[m] = message[m]
    BY <1>2, SlackUpdatesType
  <2>2. \A w \in WorkflowIds :
          Waits(w) => Ended(store[w].messageTs)
                      /\ store[w].messageTs # task[d].ts
    BY <2>1 DEF StatusInv, Waits, TypeInv, LastInv, Awaits
  <2>3. \A w \in WorkflowIds :
          Waits(w) => message'[store[w].messageTs] = message[store[w].messageTs]
    BY <2>1, <2>2 DEF Ended
  <2>4. \A w \in WorkflowIds :
          Waits(w)' => store'[w].messageTs # None
                       /\ Buttons(store[w].messageTs, w)'
    BY <2>1, <2>3 DEF StatusInv, Waits, Buttons
  <2>5. QED
    BY <2>1, <2>4 DEF StatusInv, Waits, Runs, Awaits, Others, RunningPcs
<1> QED
  BY <1>1, <1>2

LEMMA DropsKeepStatusInv ==
  ASSUME TypeInv, StatusInv, Drops
  PROVE  StatusInv'
<1>1. PICK w \in WorkflowIds :
        /\ store[w] \in Instance
        /\ store' = [store EXCEPT ![w] = WithStatus(store[w], "CANCELLED")]
        /\ UNCHANGED <<task, message>>
  BY DropsType
<1>2. \A v \in WorkflowIds :
        Waits(v)' \/ Runs(v)' => store'[v] = store[v]
  <2>1. WithStatus(store[w], "CANCELLED").status = "CANCELLED"
    BY <1>1, StatusType DEF Status
  <2>2. QED
    BY <1>1, <2>1 DEF Waits, Runs, TypeInv, TypeOK
<1>3. \A v \in WorkflowIds :
        Waits(v)' => store'[v].messageTs # None /\ Buttons(store[v].messageTs, v)'
  BY <1>1, <1>2 DEF StatusInv, Waits, Buttons
<1> QED
  BY <1>1, <1>2, <1>3 DEF StatusInv, Waits, Runs, Awaits

LEMMA NextKeepsStatusInv ==
  TypeInv /\ StatusInv /\ [Next]_vars => StatusInv'
<1> SUFFICES ASSUME TypeInv, StatusInv, [Next]_vars PROVE StatusInv'
  OBVIOUS
<1>1. CASE UNCHANGED <<store, message, task>>
  BY <1>1 DEF StatusInv, Waits, Runs, Buttons, Awaits
<1>2. ASSUME NEW d \in Events, RefuseStart(d) PROVE StatusInv'
  <2>1. /\ task[d].pc = "none" /\ UNCHANGED <<store, message>>
        /\ Others(d) /\ task'[d].pc = "ended"
    BY <1>2, EndType
    DEF RefuseStart, Begins, TryAcquire, stores, TypeInv, TaskInv
  <2>2. QED
    BY <2>1, StatusUntouched DEF RunningPcs
<1>3. ASSUME NEW d \in Events, GitHubFiles(d) PROVE StatusInv'
  <2>1. task[d].pc = "filing" /\ task[d].wf \in WorkflowIds /\ TypeOK
    BY <1>3 DEF GitHubFiles, TypeInv, TaskInv, Suspended, Awaits
  <2>2. /\ UNCHANGED <<store, message>> /\ Others(d)
        /\ task'[d].pc \in {"filed", "relating"} /\ task'[d].wf = task[d].wf
    BY <1>3, <2>1, GitHubFilesType
  <2>3. QED
    BY <2>2, StatusUntouched DEF RunningPcs
<1>4. ASSUME NEW d \in Events, GitHubRelates(d) PROVE StatusInv'
  <2>1. /\ UNCHANGED <<store, message>> /\ Others(d)
        /\ task'[d].pc = "filed" /\ task'[d].wf = task[d].wf
    BY <1>4, GitHubRelatesType
  <2>2. QED
    BY <2>1, StatusUntouched DEF RunningPcs
<1>5. ASSUME NEW d \in Events, Complete(d) PROVE StatusInv'
  <2>1. /\ task[d].pc = "notified" /\ UNCHANGED <<store, message>>
        /\ Others(d) /\ task'[d].pc = "ended"
    BY <1>5, CompleteType
  <2>2. QED
    BY <2>1, StatusUntouched DEF RunningPcs
<1>6. ASSUME NEW d \in Events, Raise(d) PROVE StatusInv'
  <2>1. /\ UNCHANGED <<store, message>> /\ Others(d)
        /\ task'[d].pc = "raised" /\ task'[d].wf = task[d].wf
    BY <1>6, RaiseType
  <2>2. QED
    BY <2>1, StatusUntouched DEF RunningPcs
<1>7. CASE \/ \E d \in Events :
                SkipDuplicate(d) \/ UserStep(d) \/ PressReject(d)
           \/ UNCHANGED vars
  BY <1>1, <1>7, UserStepType DEF SkipDuplicate, vars, stores
<1> QED
  BY <1>2, <1>3, <1>4, <1>5, <1>6, <1>7, NextCases, ContinuesKeepsStatusInv,
     WaitKeepsStatusInv, IssueFiledKeepsStatusInv, SlackKeepsStatusInv,
     DropsKeepStatusInv

LEMMA StatusInvHolds == Spec => []StatusInv
<1>1. Init => StatusInv
  BY DEF Init, StatusInv, Waits, Runs, Awaits, NotStarted
<1> QED
  BY <1>1, LocalTypeInv, NextKeepsStatusInv, PTL DEF Spec

(***************************************************************************)
(* However many tasks share a workflow's object, while it waits the user   *)
(* has a message with buttons to answer.                                   *)
(***************************************************************************)
THEOREM LocalWaitingHasButtons == Spec => []WaitingHasButtons
<1>1. StatusInv => WaitingHasButtons
  BY DEF StatusInv, WaitingHasButtons, Waits, Buttons
<1> QED
  BY <1>1, StatusInvHolds, PTL

(***************************************************************************)
(* No task leaves a workflow RUNNING behind, unless a call raised.         *)
(***************************************************************************)
THEOREM LocalNobodyLeftRunning == Spec => []NobodyLeftRunning
<1>1. StatusInv => NobodyLeftRunning
  BY DEF StatusInv, NobodyLeftRunning, Runs
<1> QED
  BY <1>1, StatusInvHolds, PTL

-----------------------------------------------------------------------------
(***************************************************************************)
(* The session of a user names a workflow of that user; once it has ended, *)
(* a task is on its way to give the session back, or raised on it.         *)
(***************************************************************************)
Finished(w) == store[w] # None /\ store[w].status \in {"COMPLETED", "FAILED"}

GivingBackPcs == {"notifying", "notified", "raised"}

SessionInv ==
  \A k \in Keys, w \in WorkflowIds :
    session[k] = w =>
      /\ store[w] # None /\ store[w].key = k
      /\ Finished(w) => \E d \in Events :
                           task[d].wf = w /\ task[d].pc \in GivingBackPcs

(* a step of task d that neither ends a workflow nor starts one *)
LEMMA SessionsUntouched ==
  ASSUME SessionInv, NEW d \in Events, Others(d), UNCHANGED session,
         \A w \in WorkflowIds :
           store[w] # None => store'[w] # None /\ store'[w].key = store[w].key,
         \A w \in WorkflowIds :
           store[w] # None /\ Finished(w)' =>
             Finished(w) \/ (task'[d].wf = w /\ task'[d].pc \in GivingBackPcs),
         task[d].pc \in GivingBackPcs =>
           task'[d].wf = task[d].wf /\ task'[d].pc \in GivingBackPcs
  PROVE  SessionInv'
  BY DEF SessionInv, Others

LEMMA ContinuesKeepsSessionInv ==
  ASSUME TypeInv, SessionInv, NEW d \in Events, NEW inst \in Instance, NEW ses,
         Continues(d, inst, ses)
  PROVE  SessionInv'
<1>1. /\ Others(d) /\ Outcome(d, inst, ses)
      /\ task[d].pc \in {"none", "agent"}
      /\ New(inst, ses) \/ Old(inst, ses)
  BY ProceedOutcome DEF Continues, TypeInv
<1>2. PICK status \in Status :
        /\ Put(WithStatus(inst, status))
        /\ \/ status = "FAILED" /\ session' = Freed(ses, inst.key)
           \/ /\ session' = ses
              /\ status \in {"FAILED", "COMPLETED"} =>
                   \/ status = inst.status
                   \/ task'[d].wf = inst.id /\ task'[d].pc \in GivingBackPcs
  <2>1. WithStatus(inst, inst.status) = inst /\ inst.status \in Status
    BY DEF WithStatus, Instance
  <2>2. CASE Failed(d, inst, ses)
    BY <2>2 DEF Failed, Status
  <2>3. CASE Suspends(d, inst, ses) \/ GivesUp(d, inst, ses)
    BY <2>1, <2>3 DEF Suspends, GivesUp
  <2>4. CASE Stops(d, inst) /\ session' = ses
    BY <2>4 DEF Stops, Status, GivingBackPcs
  <2>5. QED
    BY <1>1, <2>2, <2>3, <2>4 DEF Outcome
<1> DEFINE new == WithStatus(inst, status)
<1>3. /\ new \in Instance /\ new.key = inst.key
      /\ new.status = status /\ new.id = inst.id
  BY StatusType
<1> HIDE DEF new
<1>4. /\ inst.id \in WorkflowIds /\ inst.key \in Keys
      /\ store'[inst.id] = new /\ new # None
      /\ \A w \in WorkflowIds : w # inst.id => store'[w] = store[w]
  BY <1>2, <1>3, PutType DEF new, TypeInv, Instance
<1>5. session \in [Keys -> WorkflowIds \union {None}]
  BY DEF TypeInv, TypeOK
<1>6. ASSUME NEW k \in Keys, ses[k] = inst.id PROVE k = inst.key
  <2>1. CASE New(inst, ses)
    <3>1. store[inst.id] = None /\ ses = [session EXCEPT ![inst.key] = inst.id]
      BY <2>1 DEF New
    <3>2. session[k] # inst.id
      BY <1>4, <3>1 DEF SessionInv
    <3>3. QED
      BY <1>5, <1>6, <3>1, <3>2
  <2>2. CASE Old(inst, ses)
    BY <1>4, <1>6, <2>2 DEF Old, SessionInv
  <2>3. QED
    BY <1>1, <2>1, <2>2
<1>7. ASSUME NEW k \in Keys, NEW w \in WorkflowIds, session'[k] = w
      PROVE  /\ store'[w] # None /\ store'[w].key = k
             /\ Finished(w)' => \E c \in Events :
                  task'[c].wf = w /\ task'[c].pc \in GivingBackPcs
  <2>1. ses[k] = w /\ (session' = Freed(ses, inst.key) => k # inst.key)
    <3>1. w # None
      BY NoneAssumption
    <3>2. ses \in [Keys -> WorkflowIds \union {None}]
      BY <1>1, <1>4, <1>5 DEF New, Old
    <3>3. QED
      BY <1>2, <1>4, <1>7, <3>1, <3>2 DEF Freed
  <2>2. CASE w = inst.id
    <3>1. k = inst.key /\ session' = ses
      BY <1>2, <1>6, <2>1, <2>2
    <3>2. store'[w] # None /\ store'[w].key = k
      BY <1>3, <1>4, <2>2, <3>1
    <3>3. ASSUME Finished(w)'
          PROVE  \E c \in Events :
                   task'[c].wf = w /\ task'[c].pc \in GivingBackPcs
      <4>1. status \in {"FAILED", "COMPLETED"}
        BY <1>3, <1>4, <2>2, <3>3 DEF Finished
      <4>2. CASE task'[d].wf = inst.id /\ task'[d].pc \in GivingBackPcs
        BY <2>2, <4>2
      <4>3. CASE status = inst.status
        <5>1. Old(inst, ses)
          BY <1>1, <4>1, <4>3 DEF New
        <5>2. session[k] = w /\ Finished(w)
          BY <1>4, <2>1, <2>2, <4>1, <4>3, <5>1, NoneIsNoRecord DEF Old, Finished
        <5>3. PICK c \in Events : task[c].wf = w /\ task[c].pc \in GivingBackPcs
          BY <5>2 DEF SessionInv
        <5>4. c # d
          BY <1>1, <5>3 DEF GivingBackPcs
        <5>5. QED
          BY <1>1, <5>3, <5>4 DEF Others
      <4>4. CASE session' = Freed(ses, inst.key)
        BY <2>1, <3>1, <4>4
      <4>5. QED
        BY <1>2, <4>1, <4>2, <4>3, <4>4
    <3>4. QED
      BY <3>2, <3>3
  <2>3. CASE w # inst.id
    <3>1. session[k] = w /\ store'[w] = store[w]
      BY <1>1, <1>4, <1>5, <2>1, <2>3 DEF New, Old
    <3>2. Finished(w)' => Finished(w)
      BY <3>1 DEF Finished
    <3>3. ASSUME NEW c \in Events, task[c].wf = w, task[c].pc \in GivingBackPcs
          PROVE  task'[c] = task[c]
      BY <1>1, <3>3 DEF GivingBackPcs, Others
    <3>4. QED
      BY <3>1, <3>2, <3>3 DEF SessionInv
  <2>4. QED
    BY <2>2, <2>3
<1> QED
  BY <1>7 DEF SessionInv

LEMMA CompleteKeepsSessionInv ==
  ASSUME TypeInv, SessionInv, NEW d \in Events, Complete(d)
  PROVE  SessionInv'
<1> DEFINE v == task[d].wf
<1>1. /\ v \in WorkflowIds /\ store[v].key \in Keys
      /\ session' = Freed(session, store[v].key)
      /\ store' = store /\ Others(d)
  BY CompleteType DEF Instance
<1> HIDE DEF v
<1>2. session \in [Keys -> WorkflowIds \union {None}]
  BY DEF TypeInv, TypeOK
<1>3. ASSUME NEW k \in Keys, NEW w \in WorkflowIds, session'[k] = w
      PROVE  session[k] = w /\ w # v
  <2>1. k # store[v].key /\ session[k] = w
    BY <1>1, <1>2, <1>3, NoneAssumption DEF Freed
  <2>2. QED
    BY <2>1 DEF SessionInv
<1>4. \A c \in Events, w \in WorkflowIds :
        task[c].wf = w /\ w # v => task'[c] = task[c]
  BY <1>1 DEF Others, v
<1> QED
  BY <1>1, <1>3, <1>4 DEF SessionInv, Finished

LEMMA DropsKeepSessionInv ==
  ASSUME TypeInv, SessionInv, Drops
  PROVE  SessionInv'
<1>1. PICK j \in Keys, v \in WorkflowIds :
        /\ store[v] \in Instance
        /\ store' = [store EXCEPT ![v] = WithStatus(store[v], "CANCELLED")]
        /\ session' = Freed(session, j)
        /\ task' = task
  BY DropsType
<1> DEFINE new == WithStatus(store[v], "CANCELLED")
<1>2. /\ new \in Instance /\ new.key = store[v].key
      /\ new.status = "CANCELLED"
  BY <1>1, StatusType DEF Status
<1>3. new # None
  BY <1>2, NoneIsNoRecord
<1> HIDE DEF new
<1>4. \A w \in WorkflowIds :
        /\ store[w] # None => store'[w] # None /\ store'[w].key = store[w].key
        /\ Finished(w)' => Finished(w)
  BY <1>1, <1>2, <1>3 DEF new, Finished, TypeInv, TypeOK
<1>5. \A k \in Keys, w \in WorkflowIds : session'[k] = w => session[k] = w
  BY <1>1, NoneAssumption DEF Freed, TypeInv, TypeOK
<1> QED
  BY <1>1, <1>4, <1>5 DEF SessionInv

LEMMA NextKeepsSessionInv ==
  TypeInv /\ SessionInv /\ [Next]_vars => SessionInv'
<1> SUFFICES ASSUME TypeInv, SessionInv, [Next]_vars PROVE SessionInv'
  OBVIOUS
<1>1. CASE UNCHANGED <<store, session, task>>
  BY <1>1 DEF SessionInv, Finished
<1>2. ASSUME NEW d \in Events, UNCHANGED <<store, session>>, Others(d),
             task[d].pc \in GivingBackPcs =>
               task'[d].wf = task[d].wf /\ task'[d].pc \in GivingBackPcs
      PROVE  SessionInv'
  <2>1. \A w \in WorkflowIds : Finished(w)' => Finished(w)
    BY <1>2 DEF Finished
  <2>2. QED
    BY <1>2, <2>1 DEF SessionInv, Finished, Others
<1>3. ASSUME NEW d \in Events, RefuseStart(d) PROVE SessionInv'
  <2>1. /\ task[d].pc = "none" /\ UNCHANGED <<store, session>> /\ Others(d)
    BY <1>3, EndType
    DEF RefuseStart, Begins, TryAcquire, stores, TypeInv, TaskInv
  <2>2. QED
    BY <1>2, <2>1 DEF GivingBackPcs
<1>4. ASSUME NEW d \in Events, SlackPosts(d) PROVE SessionInv'
  <2>1. task[d].pc = "posting" /\ UNCHANGED <<store, session>> /\ Others(d)
    BY <1>4, SlackPostsType
  <2>2. QED
    BY <1>2, <2>1 DEF GivingBackPcs
<1>5. ASSUME NEW d \in Events, Wait(d) PROVE SessionInv'
  <2> DEFINE w   == task[d].wf
             new == [Obj(d) EXCEPT !.messageTs = d, !.status = "WAITING"]
  <2>1. /\ task[d].pc = "posted" /\ session' = session /\ Others(d)
        /\ store'[w] = new /\ new # None /\ new.key = store[w].key
        /\ new.status = "WAITING"
        /\ \A v \in WorkflowIds : v # w => store'[v] = store[v]
    BY <1>5, WaitType
  <2> HIDE DEF new, w
  <2>2. \A v \in WorkflowIds :
          /\ store[v] # None => store'[v] # None /\ store'[v].key = store[v].key
          /\ Finished(v)' => v # w /\ store'[v] = store[v]
    BY <2>1 DEF Finished
  <2>3. ASSUME NEW k \in Keys, NEW v \in WorkflowIds, session'[k] = v
        PROVE  /\ store'[v] # None /\ store'[v].key = k
               /\ Finished(v)' => \E c \in Events :
                    task'[c].wf = v /\ task'[c].pc \in GivingBackPcs
    <3>1. store[v] # None /\ store[v].key = k
      BY <2>1, <2>3 DEF SessionInv
    <3>2. ASSUME Finished(v)'
          PROVE  \E c \in Events :
                   task'[c].wf = v /\ task'[c].pc \in GivingBackPcs
      <4>1. Finished(v)
        BY <2>2, <3>1, <3>2 DEF Finished
      <4>2. PICK c \in Events : task[c].wf = v /\ task[c].pc \in GivingBackPcs
        BY <2>1, <2>3, <4>1 DEF SessionInv
      <4>3. c # d
        BY <2>1, <4>2 DEF GivingBackPcs
      <4>4. QED
        BY <2>1, <4>2, <4>3 DEF Others
    <3>3. QED
      BY <2>2, <3>1, <3>2
  <2>4. QED
    BY <2>3 DEF SessionInv
<1>6. ASSUME NEW d \in Events, GitHubFiles(d) PROVE SessionInv'
  <2>1. task[d].pc = "filing" /\ task[d].wf \in WorkflowIds /\ TypeOK
    BY <1>6 DEF GitHubFiles, TypeInv, TaskInv, Suspended, Awaits
  <2>2. UNCHANGED <<store, session>> /\ Others(d)
    BY <1>6, <2>1, GitHubFilesType
  <2>3. QED
    BY <1>2, <2>1, <2>2 DEF GivingBackPcs
<1>7. ASSUME NEW d \in Events, GitHubRelates(d) PROVE SessionInv'
  <2>1. task[d].pc = "relating" /\ UNCHANGED <<store, session>> /\ Others(d)
    BY <1>7, GitHubRelatesType
  <2>2. QED
    BY <1>2, <2>1 DEF GivingBackPcs
<1>8. ASSUME NEW d \in Events, IssueFiled(d) PROVE SessionInv'
  <2> DEFINE w == task[d].wf
  <2>1. /\ task[d].pc = "filed" /\ session' = session /\ Others(d)
        /\ store'[w] # None /\ store'[w].key = store[w].key
        /\ \A v \in WorkflowIds : v # w => store'[v] = store[v]
        /\ task'[d].wf = w /\ task'[d].pc = "notifying"
    BY <1>8, IssueFiledType
  <2> HIDE DEF w
  <2>2. QED
    BY <2>1, SessionsUntouched DEF Finished, GivingBackPcs
<1>9. ASSUME NEW d \in Events, SlackUpdates(d) PROVE SessionInv'
  <2>1. /\ UNCHANGED <<store, session>> /\ Others(d)
        /\ task'[d].pc = "notified" /\ task'[d].wf = task[d].wf
    BY <1>9, SlackUpdatesType
  <2>2. QED
    BY <1>2, <2>1 DEF GivingBackPcs
<1>10. ASSUME NEW d \in Events, Raise(d) PROVE SessionInv'
  <2>1. /\ UNCHANGED <<store, session>> /\ Others(d)
        /\ task'[d].pc = "raised" /\ task'[d].wf = task[d].wf
    BY <1>10, RaiseType
  <2>2. QED
    BY <1>2, <2>1 DEF GivingBackPcs
<1>11. CASE \/ \E d \in Events :
                 SkipDuplicate(d) \/ UserStep(d) \/ PressReject(d)
            \/ UNCHANGED vars
  BY <1>1, <1>11, UserStepType DEF SkipDuplicate, vars, stores
<1> QED
  BY <1>3, <1>4, <1>5, <1>6, <1>7, <1>8, <1>9, <1>10, <1>11, NextCases,
     ContinuesKeepsSessionInv, CompleteKeepsSessionInv, DropsKeepSessionInv

(***************************************************************************)
(* When every task has run, no user is left with the session of a workflow *)
(* that has ended, unless a call raised.                                   *)
(***************************************************************************)
THEOREM LocalSessionGivenBack == Spec => []SessionGivenBack
<1>1. Init => SessionInv
  BY NoneAssumption DEF Init, SessionInv
<1>2. SessionInv => SessionGivenBack
  BY DEF SessionInv, SessionGivenBack, Finished
<1> QED
  BY <1>1, <1>2, LocalTypeInv, NextKeepsSessionInv, PTL DEF Spec

-----------------------------------------------------------------------------
(***************************************************************************)
(* A draft, once shown or accepted, stays on the object: what a later step *)
(* parses is there, and every task that raised, raised in a call.          *)
(***************************************************************************)
HasDraft(w) == store[w] # None /\ store[w].draft # None

DraftInv ==
  \A d \in Events :
    /\ Awaits(d, "posting") /\ task[d].step = "wait_confirmation" =>
         HasDraft(task[d].wf)
    /\ message[d] # None /\ message[d].step = "wait_confirmation" =>
         HasDraft(message[d].wf)
    /\ event[d] # None /\ event[d].type = "accept" => HasDraft(event[d].wf)

RaisedTasks == {d \in Events : Awaits(d, "raised")}

RaisedInv ==
  /\ IsFiniteSet(RaisedTasks)
  /\ Cardinality(RaisedTasks) = Errors - budget.errors

CallsInv == DraftInv /\ RaisedInv

(* a step after which no other task has raised *)
LEMMA NobodyRaises ==
  ASSUME RaisedInv, NEW d \in Events, Others(d), budget'.errors = budget.errors,
         task[d].pc # "raised", task'[d].pc # "raised"
  PROVE  RaisedInv'
<1>1. RaisedTasks' = RaisedTasks
  BY DEF RaisedTasks, Awaits, Others
<1> QED
  BY <1>1 DEF RaisedInv

(* a step of task d that keeps the drafts, posts and sends nothing *)
LEMMA DraftsKept ==
  ASSUME TypeInv, DraftInv, NEW d \in Events, Others(d), event' = event,
         task'[d].pc # "posting",
         \A w \in WorkflowIds : HasDraft(w) => HasDraft(w)',
         \A m \in Events : message'[m] # None =>
           /\ message[m] # None
           /\ message'[m].step = message[m].step
           /\ message'[m].wf = message[m].wf
  PROVE  DraftInv'
<1>1. ASSUME NEW c \in Events, Awaits(c, "posting")',
             task'[c].step = "wait_confirmation"
      PROVE  HasDraft(task[c].wf)'
  <2>1. c # d /\ task'[c] = task[c] /\ Awaits(c, "posting")
    BY <1>1 DEF Awaits, Others
  <2>2. task[c].wf \in WorkflowIds /\ HasDraft(task[c].wf)
    BY <1>1, <2>1 DEF DraftInv, TypeInv, TaskInv, Awaits, Suspended
  <2>3. store'[task[c].wf] # None /\ store'[task[c].wf].draft # None
    BY <2>2 DEF HasDraft
  <2>4. QED
    BY <2>1, <2>3 DEF HasDraft
<1>2. ASSUME NEW m \in Events, message'[m] # None,
             message'[m].step = "wait_confirmation"
      PROVE  HasDraft(message[m].wf)'
  <2>1. message[m] # None /\ message'[m].wf = message[m].wf
        /\ message[m].step = "wait_confirmation"
    BY <1>2
  <2>2. message[m].wf \in WorkflowIds /\ HasDraft(message[m].wf)
    BY <2>1 DEF DraftInv, TypeInv, TypeOK, Message
  <2>3. store'[message[m].wf] # None /\ store'[message[m].wf].draft # None
    BY <2>2 DEF HasDraft
  <2>4. QED
    BY <2>1, <2>3 DEF HasDraft
<1>3. ASSUME NEW c \in Events, event'[c] # None, event'[c].type = "accept"
      PROVE  HasDraft(event[c].wf)'
  <2>1. event[c] # None /\ event[c].type = "accept" /\ event'[c] = event[c]
    BY <1>3
  <2>2. event[c].wf \in WorkflowIds /\ HasDraft(event[c].wf)
    BY <2>1 DEF DraftInv, TypeInv, EventInv, EventOf
  <2>3. store'[event[c].wf] # None /\ store'[event[c].wf].draft # None
    BY <2>2 DEF HasDraft
  <2>4. QED
    BY <2>1, <2>3 DEF HasDraft
<1> QED
  BY <1>1, <1>2, <1>3 DEF DraftInv

LEMMA ContinuesKeepsCallsInv ==
  ASSUME TypeInv, CallsInv, NEW d \in Events, NEW inst \in Instance, NEW ses,
         Continues(d, inst, ses)
  PROVE  CallsInv'
<1>1. /\ Others(d) /\ Outcome(d, inst, ses)
      /\ task[d].pc \in {"none", "agent"}
      /\ New(inst, ses) \/ Old(inst, ses)
      /\ UNCHANGED <<event, message, budget>>
      /\ ~ Ready(inst) =>
           /\ event[d] # None /\ event[d].type = "accept"
           /\ event[d].wf = inst.id /\ store[inst.id].draft = None
  BY ProceedOutcome DEF Continues, TypeInv
<1>2. Ready(inst)
  BY <1>1 DEF CallsInv, DraftInv, HasDraft
<1>3. PICK status \in Status :
        /\ Put(WithStatus(inst, status))
        /\ task'[d].pc # "raised"
        /\ task'[d].pc = "posting" =>
             task'[d].wf = inst.id /\ task'[d].step = inst.step
  <2>1. WithStatus(inst, inst.status) = inst /\ inst.status \in Status
    BY DEF WithStatus, Instance
  <2>2. CASE Failed(d, inst, ses)
    BY <2>2 DEF Failed, Status
  <2>3. CASE Suspends(d, inst, ses)
    BY <2>1, <2>3 DEF Suspends
  <2>4. CASE Stops(d, inst)
    BY <2>4 DEF Stops, Status
  <2>5. QED
    BY <1>1, <1>2, <2>2, <2>3, <2>4 DEF Outcome, GivesUp
<1> DEFINE new == WithStatus(inst, status)
<1>4. new \in Instance /\ new.draft = inst.draft /\ new.id = inst.id
  BY StatusType
<1> HIDE DEF new
<1>5. /\ inst.id \in WorkflowIds /\ store'[inst.id] = new /\ new # None
      /\ \A w \in WorkflowIds : w # inst.id => store'[w] = store[w]
  BY <1>3, <1>4, PutType DEF new, TypeInv
<1>6. \A w \in WorkflowIds :
        store[w] # None /\ store[w].draft # None =>
          store'[w] # None /\ store'[w].draft # None
  BY <1>1, <1>4, <1>5 DEF New, Old
<1>7. RaisedInv'
  BY <1>1, <1>3, NobodyRaises DEF CallsInv
<1>8. ASSUME NEW c \in Events, Awaits(c, "posting")',
             task'[c].step = "wait_confirmation"
      PROVE  store'[task'[c].wf] # None /\ store'[task'[c].wf].draft # None
  <2>1. CASE c = d
    <3>1. task'[d].wf = inst.id /\ inst.step = "wait_confirmation"
      BY <1>3, <1>8, <2>1 DEF Awaits
    <3>2. inst.draft # None
      BY <1>2, <3>1 DEF Ready
    <3>3. QED
      BY <1>4, <1>5, <2>1, <3>1, <3>2
  <2>2. CASE c # d
    <3>1. task'[c] = task[c] /\ Awaits(c, "posting")
      BY <1>1, <1>8, <2>2 DEF Awaits, Others
    <3>2. task[c].wf \in WorkflowIds /\ HasDraft(task[c].wf)
      BY <1>8, <3>1 DEF CallsInv, DraftInv, TypeInv, TaskInv, Awaits, Suspended
    <3>3. QED
      BY <1>6, <3>1, <3>2 DEF HasDraft
  <2>3. QED
    BY <2>1, <2>2
<1>9. ASSUME NEW m \in Events, message[m] # None,
             message[m].step = "wait_confirmation"
      PROVE  store'[message[m].wf] # None /\ store'[message[m].wf].draft # None
  <2>1. message[m].wf \in WorkflowIds /\ HasDraft(message[m].wf)
    BY <1>9 DEF CallsInv, DraftInv, TypeInv, TypeOK, Message
  <2>2. QED
    BY <1>6, <2>1 DEF HasDraft
<1>10. ASSUME NEW c \in Events, event[c] # None, event[c].type = "accept"
       PROVE  store'[event[c].wf] # None /\ store'[event[c].wf].draft # None
  <2>1. event[c].wf \in WorkflowIds /\ HasDraft(event[c].wf)
    BY <1>10 DEF CallsInv, DraftInv, TypeInv, EventInv, EventOf
  <2>2. QED
    BY <1>6, <2>1 DEF HasDraft
<1>11. DraftInv'
  BY <1>1, <1>8, <1>9, <1>10 DEF DraftInv, HasDraft
<1> QED
  BY <1>7, <1>11 DEF CallsInv

LEMMA SlackPostsKeepsCallsInv ==
  ASSUME TypeInv, CallsInv, NEW d \in Events, SlackPosts(d)
  PROVE  CallsInv'
<1>1. /\ task[d].pc = "posting"
      /\ message'[d].wf = task[d].wf /\ message'[d].step = task[d].step
      /\ \A m \in Events : m # d => message'[m] = message[m]
      /\ Others(d) /\ task'[d].pc = "posted"
      /\ UNCHANGED <<event, store, budget>>
  BY SlackPostsType
<1>2. RaisedInv'
  BY <1>1, NobodyRaises DEF CallsInv
<1>3. DraftInv'
  BY <1>1 DEF CallsInv, DraftInv, HasDraft, Awaits, Others
<1> QED
  BY <1>2, <1>3 DEF CallsInv

LEMMA RaiseKeepsCallsInv ==
  ASSUME TypeInv, CallsInv, NEW d \in Events, Raise(d)
  PROVE  CallsInv'
<1>1. /\ Suspended(d) /\ Others(d) /\ task'[d].pc = "raised"
      /\ budget' = [budget EXCEPT !.errors = @ - 1]
      /\ UNCHANGED <<event, message, store>>
  BY RaiseType
<1>2. DraftInv'
  BY <1>1 DEF CallsInv, DraftInv, HasDraft, Awaits, Others
<1>3. d \notin RaisedTasks /\ RaisedTasks' = RaisedTasks \union {d}
  BY <1>1 DEF RaisedTasks, Awaits, Suspended, Others
<1>4. /\ IsFiniteSet(RaisedTasks')
      /\ Cardinality(RaisedTasks') = Cardinality(RaisedTasks) + 1
  BY <1>3, FS_AddElement DEF CallsInv, RaisedInv
<1>5. /\ budget.errors \in Nat /\ budget'.errors = budget.errors - 1
      /\ Errors \in Nat
  BY <1>1, LocalAssumption DEF TypeInv, TypeOK
<1>6. RaisedInv'
  BY <1>4, <1>5 DEF CallsInv, RaisedInv
<1> QED
  BY <1>2, <1>6 DEF CallsInv

LEMMA UserStepKeepsCallsInv ==
  ASSUME TypeInv, CallsInv, NEW d \in Events, UserStep(d) \/ PressReject(d)
  PROVE  CallsInv'
<1>1. /\ event' = event \/ \E e \in Event : Sends(d, e)
      /\ budget'.errors = budget.errors
      /\ UNCHANGED <<store, task, message>>
  BY UserStepType
<1>2. RaisedInv'
  BY <1>1 DEF CallsInv, RaisedInv, RaisedTasks, Awaits
<1>3. CASE event' = event
  BY <1>1, <1>2, <1>3 DEF CallsInv, DraftInv, HasDraft, Awaits
<1>4. CASE \E e \in Event : Sends(d, e)
  <2>1. PICK e \in Event : Sends(d, e)
    BY <1>4
  <2>2. event' = [event EXCEPT ![d] = e]
        /\ event \in [Events -> Event \union {None}]
    BY <2>1 DEF Sends, TypeInv, TypeOK
  <2>3. e.type = "accept" => HasDraft(e.wf)
    <3>1. SUFFICES ASSUME e.type = "accept" PROVE HasDraft(e.wf)
      OBVIOUS
    <3>2. PICK m \in Events :
            Buttons(m, e.wf) /\ message[m].step = "wait_confirmation"
      BY <2>1, <3>1 DEF Sends
    <3>3. QED
      BY <3>2 DEF CallsInv, DraftInv, Buttons
  <2>4. \A c \in Events :
          event'[c] # None /\ event'[c].type = "accept" => HasDraft(event'[c].wf)
    BY <2>2, <2>3 DEF CallsInv, DraftInv
  <2>5. DraftInv'
    BY <1>1, <2>4 DEF CallsInv, DraftInv, HasDraft, Awaits
  <2>6. QED
    BY <1>2, <2>5 DEF CallsInv
<1> QED
  BY <1>1, <1>3, <1>4

LEMMA DropsKeepCallsInv ==
  ASSUME TypeInv, CallsInv, Drops
  PROVE  CallsInv'
<1>1. PICK v \in WorkflowIds :
        /\ store[v] \in Instance
        /\ store' = [store EXCEPT ![v] = WithStatus(store[v], "CANCELLED")]
        /\ UNCHANGED <<event, task, message, budget>>
  BY DropsType
<1> DEFINE new == WithStatus(store[v], "CANCELLED")
<1>2. new \in Instance /\ new.draft = store[v].draft
  BY <1>1, StatusType DEF Status
<1>3. new # None
  BY <1>2, NoneIsNoRecord
<1> HIDE DEF new
<1>4. store' \in [WorkflowIds -> Instance \union {None}]
      /\ \A w \in WorkflowIds :
           store[w] # None => store'[w] # None /\ store'[w].draft = store[w].draft
  BY <1>1, <1>2, <1>3 DEF new, TypeInv, TypeOK
<1>5. /\ \A c \in Events :
           /\ Awaits(c, "posting") => task[c].wf \in WorkflowIds
           /\ message[c] # None => message[c].wf \in WorkflowIds
           /\ event[c] # None /\ event[c].type = "accept" =>
                event[c].wf \in WorkflowIds
  BY DEF TypeInv, TypeOK, TaskInv, Suspended, Awaits, Message, EventInv, EventOf
<1>6. DraftInv'
  BY <1>1, <1>4, <1>5 DEF CallsInv, DraftInv, HasDraft, Awaits
<1>7. RaisedInv'
  BY <1>1 DEF CallsInv, RaisedInv, RaisedTasks, Awaits
<1> QED
  BY <1>6, <1>7 DEF CallsInv

LEMMA NextKeepsCallsInv ==
  TypeInv /\ CallsInv /\ [Next]_vars => CallsInv'
<1> SUFFICES ASSUME TypeInv, CallsInv, [Next]_vars PROVE CallsInv'
  OBVIOUS
<1>1. CASE UNCHANGED <<store, event, task, message, budget>>
  BY <1>1 DEF CallsInv, DraftInv, HasDraft, RaisedInv, RaisedTasks, Awaits
<1>2. ASSUME NEW d \in Events, Others(d), UNCHANGED <<event, budget>>,
             task[d].pc # "raised", task'[d].pc \notin {"raised", "posting"},
             \A w \in WorkflowIds :
               store[w] # None /\ store[w].draft # None =>
                 store'[w] # None /\ store'[w].draft # None,
             \A m \in Events : message'[m] # None =>
               /\ message[m] # None
               /\ message'[m].step = message[m].step
               /\ message'[m].wf = message[m].wf
      PROVE  CallsInv'
  <2>1. \A w \in WorkflowIds : HasDraft(w) => HasDraft(w)'
    BY <1>2 DEF HasDraft
  <2>2. DraftInv'
    BY <1>2, <2>1, DraftsKept DEF CallsInv
  <2>3. RaisedInv'
    BY <1>2, NobodyRaises DEF CallsInv
  <2>4. QED
    BY <2>2, <2>3 DEF CallsInv
<1>3. ASSUME NEW d \in Events, RefuseStart(d) PROVE CallsInv'
  <2>1. /\ task[d].pc = "none" /\ UNCHANGED <<store, event, message, budget>>
        /\ Others(d) /\ task'[d].pc = "ended"
    BY <1>3, EndType
    DEF RefuseStart, Begins, TryAcquire, stores, TypeInv, TaskInv
  <2>2. QED
    BY <1>2, <2>1
<1>4. ASSUME NEW d \in Events, Wait(d) PROVE CallsInv'
  <2> DEFINE w   == task[d].wf
             new == [Obj(d) EXCEPT !.messageTs = d, !.status = "WAITING"]
  <2>1. /\ task[d].pc = "posted" /\ UNCHANGED <<event, message, budget>>
        /\ Others(d) /\ task'[d].pc = "ended"
        /\ store'[w] = new /\ new # None /\ new.draft = store[w].draft
        /\ \A v \in WorkflowIds : v # w => store'[v] = store[v]
    BY <1>4, WaitType
  <2> HIDE DEF new, w
  <2>2. QED
    BY <1>2, <2>1
<1>5. ASSUME NEW d \in Events, GitHubFiles(d) PROVE CallsInv'
  <2>1. task[d].pc = "filing" /\ task[d].wf \in WorkflowIds /\ TypeOK
    BY <1>5 DEF GitHubFiles, TypeInv, TaskInv, Suspended, Awaits
  <2>2. /\ UNCHANGED <<store, event, message, budget>> /\ Others(d)
        /\ task'[d].pc \in {"filed", "relating"}
    BY <1>5, <2>1, GitHubFilesType
  <2>3. QED
    BY <1>2, <2>1, <2>2
<1>6. ASSUME NEW d \in Events, GitHubRelates(d) PROVE CallsInv'
  <2>1. /\ task[d].pc = "relating" /\ UNCHANGED <<store, event, message, budget>>
        /\ Others(d) /\ task'[d].pc = "filed"
    BY <1>6, GitHubRelatesType
  <2>2. QED
    BY <1>2, <2>1
<1>7. ASSUME NEW d \in Events, IssueFiled(d) PROVE CallsInv'
  <2> DEFINE w == task[d].wf
  <2>1. /\ task[d].pc = "filed" /\ UNCHANGED <<event, message, budget>>
        /\ Others(d) /\ task'[d].pc = "notifying"
        /\ store'[w] # None /\ store'[w].draft = store[w].draft
        /\ \A v \in WorkflowIds : v # w => store'[v] = store[v]
    BY <1>7, IssueFiledType
  <2> HIDE DEF w
  <2>2. QED
    BY <1>2, <2>1
<1>8. ASSUME NEW d \in Events, SlackUpdates(d) PROVE CallsInv'
  <2>1. /\ task[d].pc = "notifying" /\ UNCHANGED <<store, event, budget>>
        /\ Others(d) /\ task'[d].pc = "notified"
        /\ \A m \in Events :
             /\ message'[m] = None <=> message[m] = None
             /\ message[m] # None =>
                  /\ message'[m].wf = message[m].wf
                  /\ message'[m].step = message[m].step
    BY <1>8, SlackUpdatesType
  <2>2. QED
    BY <1>2, <2>1
<1>9. ASSUME NEW d \in Events, Complete(d) PROVE CallsInv'
  <2>1. /\ task[d].pc = "notified" /\ UNCHANGED <<store, event, message, budget>>
        /\ Others(d) /\ task'[d].pc = "ended"
    BY <1>9, CompleteType
  <2>2. QED
    BY <1>2, <2>1
<1>10. CASE \/ \E d \in Events : SkipDuplicate(d) \/ UserStep(d) \/ PressReject(d)
            \/ UNCHANGED vars
  <2>1. ASSUME NEW d \in Events, SkipDuplicate(d)
        PROVE  UNCHANGED <<store, event, task, message, budget>>
    BY <2>1 DEF SkipDuplicate, stores
  <2>2. QED
    BY <1>1, <1>10, <2>1, UserStepKeepsCallsInv DEF vars, stores, users
<1> QED
  BY <1>3, <1>4, <1>5, <1>6, <1>7, <1>8, <1>9, <1>10, NextCases,
     ContinuesKeepsCallsInv, SlackPostsKeepsCallsInv, RaiseKeepsCallsInv,
     UserStepKeepsCallsInv, DropsKeepCallsInv

(***************************************************************************)
(* No step finds its input gone: the tasks that raised are as many as the  *)
(* calls that did.                                                         *)
(***************************************************************************)
THEOREM LocalOnlyCallsRaise == Spec => []OnlyCallsRaise
<1>1. Init => CallsInv
  <2> SUFFICES ASSUME Init PROVE CallsInv
    OBVIOUS
  <2>1. RaisedTasks = {} /\ budget.errors = Errors
    BY DEF Init, RaisedTasks, Awaits, NotStarted
  <2>2. RaisedInv
    BY <2>1, FS_EmptySet, LocalAssumption DEF RaisedInv
  <2>3. DraftInv
    BY DEF Init, DraftInv, Awaits, NotStarted
  <2>4. QED
    BY <2>2, <2>3 DEF CallsInv
<1>2. CallsInv => OnlyCallsRaise
  BY DEF CallsInv, RaisedInv, OnlyCallsRaise, RaisedTasks
<1> QED
  BY <1>1, <1>2, LocalTypeInv, NextKeepsCallsInv, PTL DEF Spec
=============================================================================
