------------------------- MODULE BarlowTypes_proofs -------------------------
(***************************************************************************)
(* Type correctness of Barlow, for every number of users, workflows,       *)
(* events, workers and drops, and every budget of faults.                  *)
(***************************************************************************)
EXTENDS Barlow, Workflow_proofs

(***************************************************************************)
(* The inductive strengthening of TypeOK: what the program counters imply  *)
(* about the local variables, and that references lead somewhere.          *)
(***************************************************************************)
WithInstance == {"setSession", "saveResumed", "run", "saveWaiting", "relate",
                 "notify", "saveEnd", "clearSession"}

EventInv ==
  /\ \A d \in Events : event[d] # None => EventOf(event[d])
  /\ \A d \in Events, r \in Receives : queue[d][r] > 0 => event[d] # None

LocalInv(p) ==
  /\ worker[p].pc # "idle" =>
       worker[p].ev \in Events /\ event[worker[p].ev] # None
  /\ worker[p].pc \in {"checkSession", "create"} =>
       event[worker[p].ev].type = "pipeline_start"
  /\ worker[p].pc = "load" => event[worker[p].ev].type # "pipeline_start"
  /\ worker[p].pc \in WithInstance => worker[p].inst \in Instance
  /\ worker[p].pc = "relate" => worker[p].issue \in 1 .. Len(issues)

WorkerInv == \A p \in Workers : LocalInv(p)

DropInv ==
  \A a \in Invocations :
    /\ drop[a].pc # "ready" =>
         drop[a].key \in Keys /\ drop[a].wf \in WorkflowIds
    /\ drop[a].pc = "save" => drop[a].inst \in Instance

(* every copy of a workflow that has a message names one that was posted *)
Posted(inst) == inst.messageTs # None => message[inst.messageTs] # None

HoldsPosted(p) == worker[p].pc \in WithInstance => Posted(worker[p].inst)

MessageInv ==
  /\ \A w \in WorkflowIds : wfTable[w] # None => Posted(wfTable[w])
  /\ \A p \in Workers : HoldsPosted(p)
  /\ \A a \in Invocations : drop[a].pc = "save" => Posted(drop[a].inst)

TypeInv == TypeOK /\ EventInv /\ WorkerInv /\ DropInv /\ MessageInv

-----------------------------------------------------------------------------
(* Frames: a step that moves only worker p, forgets no event and no issue. *)

Others(p) == \A q \in Workers : q # p => worker'[q] = worker[q]

EventsStay == \A d \in Events : event[d] # None => event'[d] = event[d]

MessagesStay == \A d \in Events : message[d] # None => message'[d] # None

LEMMA WorkerFrame ==
  ASSUME WorkerInv, NEW p \in Workers, Others(p), EventsStay,
         Len(issues) \in Nat, Len(issues)' \in Nat,
         Len(issues)' >= Len(issues),
         LocalInv(p)'
  PROVE  WorkerInv'
<1> SUFFICES ASSUME NEW q \in Workers, q # p PROVE LocalInv(q)'
  BY DEF WorkerInv
<1>1. worker'[q] = worker[q] /\ LocalInv(q)
  BY DEF Others, WorkerInv
<1> QED
  BY <1>1 DEF LocalInv, EventsStay

LEMMA MessageFrame ==
  ASSUME TypeOK, TypeOK', MessageInv, NEW p \in Workers, Others(p),
         MessagesStay,
         \A w \in WorkflowIds :
           wfTable'[w] \in {wfTable[w], None} \/ Posted(wfTable[w])',
         HoldsPosted(p)',
         UNCHANGED drop, WorkerInv, DropInv
  PROVE  MessageInv'
<1>1. \A i \in Instance : 
        Posted(i) => (i.messageTs # None => message'[i.messageTs] # None)
  BY DEF Posted, MessagesStay, Instance, MaybeEvent
<1>2. \A w \in WorkflowIds : wfTable'[w] # None => Posted(wfTable[w])'
  BY <1>1 DEF MessageInv, HoldsPosted, TypeOK, Posted
<1>3. \A q \in Workers : HoldsPosted(q)'
  BY <1>1 DEF MessageInv, HoldsPosted, WorkerInv, LocalInv, Others, Posted
<1>4. \A a \in Invocations : drop'[a].pc = "save" => Posted(drop[a].inst)'
  BY <1>1 DEF MessageInv, HoldsPosted, DropInv, Posted
<1> QED
  BY <1>2, <1>3, <1>4 DEF MessageInv

-----------------------------------------------------------------------------
(* Updates of one invocation and of one record.                            *)

LEMMA GotoType ==
  ASSUME worker \in [Workers -> WorkerState], NEW p \in Workers,
         NEW pc \in WorkerPc, Goto(p, pc)
  PROVE  /\ worker' \in [Workers -> WorkerState]
         /\ worker'[p].pc = pc
         /\ worker'[p].ev = worker[p].ev
         /\ worker'[p].inst = worker[p].inst
         /\ worker'[p].issue = worker[p].issue
         /\ Others(p)
  BY DEF Goto, WorkerState, Others

LEMMA GotoWithType ==
  ASSUME worker \in [Workers -> WorkerState], NEW p \in Workers,
         NEW pc \in WorkerPc, NEW inst \in Instance, GotoWith(p, pc, inst)
  PROVE  /\ worker' \in [Workers -> WorkerState]
         /\ worker'[p].pc = pc
         /\ worker'[p].inst = inst
         /\ worker'[p].ev = worker[p].ev
         /\ worker'[p].issue = worker[p].issue
         /\ Others(p)
  BY DEF GotoWith, WorkerState, Others

LEMMA FinishType ==
  ASSUME worker \in [Workers -> WorkerState], NEW p \in Workers,
         Finish(p)
  PROVE  /\ worker' \in [Workers -> WorkerState]
         /\ worker'[p] = Idle
         /\ worker'[p].pc = "idle"
         /\ Others(p)
  BY BoundsAssumption
  DEF Finish, WorkerState, Idle, Receives, WorkerPc, MaybeEvent, Others

LEMMA SaveType ==
  ASSUME wfTable \in [WorkflowIds -> Instance \union {None}],
         NEW inst \in Instance, Save(inst)
  PROVE  /\ wfTable' \in [WorkflowIds -> Instance \union {None}]
         /\ inst.id \in WorkflowIds
         /\ wfTable'[inst.id] = inst
         /\ \A w \in WorkflowIds : w # inst.id => wfTable'[w] = wfTable[w]
  BY DEF Save, Instance

(***************************************************************************)
(* A step of a worker that, besides its own state, touches no more than a  *)
(* session and a pending action.                                           *)
(***************************************************************************)
LEMMA LocalStep ==
  ASSUME TypeInv, NEW p \in Workers,
         worker' \in [Workers -> WorkerState], Others(p), LocalInv(p)',
         HoldsPosted(p)',
         session' \in [Keys -> WorkflowIds \union {None}],
         pending' \in [Events -> {"absent", "PROCESSING", "DONE"}],
         UNCHANGED <<wfTable, created, sqs, slack, issues, drop, budget>>
  PROVE  TypeInv'
<1> USE DEF TypeInv, sqs, slack
<1>1. TypeOK'
  BY DEF TypeOK
<1>2. EventInv' /\ EventsStay /\ DropInv' /\ MessagesStay
  BY DEF EventInv, EventsStay, DropInv, MessagesStay
<1>3. WorkerInv'
  BY <1>2, WorkerFrame DEF TypeOK
<1>4. MessageInv'
  BY <1>1, <1>2, MessageFrame
<1> QED
  BY <1>1, <1>2, <1>3, <1>4

(***************************************************************************)
(* A step of a worker that saves the workflow it has in its hands.         *)
(***************************************************************************)
LEMMA SaveStep ==
  ASSUME TypeInv, NEW p \in Workers,
         worker' \in [Workers -> WorkerState], Others(p), LocalInv(p)',
         NEW inst \in Instance, Posted(inst), Save(inst),
         worker'[p].pc \in WithInstance => worker'[p].inst = inst,
         created' \subseteq WorkflowIds,
         UNCHANGED <<session, pending, sqs, slack, issues, drop, budget>>
  PROVE  TypeInv'
<1> USE DEF TypeInv, sqs, slack
<1>1. TypeOK'
  BY SaveType DEF TypeOK
<1>2. EventInv' /\ EventsStay /\ DropInv'
  BY DEF EventInv, EventsStay, DropInv
<1>3. WorkerInv'
  BY <1>2, WorkerFrame DEF TypeOK
<1>4. MessageInv'
  <2>1. \A w \in WorkflowIds : wfTable'[w] # None => Posted(wfTable[w])'
    BY DEF MessageInv, HoldsPosted, TypeOK, Posted, Save, Instance
  <2>2. \A q \in Workers : HoldsPosted(q)'
    BY DEF MessageInv, HoldsPosted, WorkerInv, LocalInv, Others, Posted
  <2>3. \A a \in Invocations : drop'[a].pc = "save" => Posted(drop[a].inst)'
    BY DEF MessageInv, HoldsPosted, DropInv, Posted
  <2>4. QED
    BY <2>1, <2>2, <2>3 DEF MessageInv
<1> QED
  BY <1>1, <1>2, <1>3, <1>4

LEMMA SendType ==
  ASSUME TypeOK, EventInv, NEW d \in Events, NEW e \in Event, Send(d, e),
         EventOf(e)
  PROVE  /\ event' \in [Events -> Event \union {None}]
         /\ queue' \in [Events -> [Receives -> Nat]]
         /\ dlq' \subseteq Events
         /\ EventInv'
         /\ EventsStay
  BY NoneIsNoRecord, BoundsAssumption
  DEF Send, TypeOK, EventInv, Receives, EventsStay

-----------------------------------------------------------------------------
(* Every step of a worker preserves TypeInv.                               *)

LEMMA WorkerKeepsTypeInv ==
  ASSUME TypeInv, NEW p \in Workers, WorkerStep(p)
  PROVE  TypeInv'
<1> USE DEF TypeInv, tables, sqs, slack, At, Ev, Inst
<1>0. worker[p] \in WorkerState /\ LocalInv(p)
  BY DEF TypeOK, WorkerInv
<1>1. ASSUME NEW d \in Events, NEW r \in Receives, Receive(p, d,
      r) PROVE TypeInv'
  <2>1. /\ worker' \in [Workers -> WorkerState] /\ Others(p)
        /\ worker'[p].pc = "received" /\ worker'[p].ev = d
    BY <1>1, <1>0, BoundsAssumption
    DEF Receive, TypeOK, LocalInv, WorkerPc, WithInstance, Idle, WorkerState,
        MaybeEvent, Receives, Others
  <2>2. TypeOK'
    BY <1>1, <1>0, <2>1 DEF TypeOK, Receive
  <2>3. EventInv' /\ EventsStay
    BY <1>1 DEF TypeOK, EventInv, EventsStay, Receive, EventInv
  <2>4. LocalInv(p)'
    BY <1>1, <1>0, <2>1, <2>3 DEF LocalInv, WithInstance, Receive, EventInv
  <2>5. WorkerInv'
    BY <1>1, <2>1, <2>2, <2>3, <2>4, WorkerFrame DEF TypeOK, Receive
  <2>6. DropInv'
    BY <1>1 DEF DropInv, Receive
  <2>7. MessageInv'
    BY <1>1, <1>0, <2>1, <2>2, MessageFrame
    DEF MessagesStay, MessageInv, HoldsPosted, LocalInv, WithInstance,
        Posted, Receive
  <2>8. QED  BY <2>2, <2>3, <2>5, <2>6, <2>7
<1>2. CASE Acquire(p)
  <2>1. /\ worker' \in [Workers -> WorkerState] /\ Others(p)
        /\ worker'[p].pc \in {"checkSession", "load"}
        /\ worker'[p].ev = worker[p].ev
        /\ worker'[p].inst = worker[p].inst
        /\ worker'[p].issue = worker[p].issue
        /\ worker'[p].pc = "checkSession" <=>
             event[worker[p].ev].type = "pipeline_start"
    BY <1>2, <1>0, GotoType
    DEF Acquire, TypeOK, LocalInv, WorkerPc, WithInstance
  <2>2. LocalInv(p)' /\ HoldsPosted(p)'
    BY <1>2, <1>0, <2>1 DEF Acquire, LocalInv, WithInstance, HoldsPosted
  <2>3. QED
    BY <1>2, <1>0, <2>1, <2>2, LocalStep DEF Acquire, TypeOK, TryAcquire
<1>3. CASE SkipDuplicate(p)
  <2>1. /\ worker' \in [Workers -> WorkerState] /\ Others(p)
        /\ worker'[p].pc = "idle"
    BY <1>3, <1>0, FinishType
    DEF SkipDuplicate, TypeOK, LocalInv, WorkerPc, WithInstance
  <2>2. LocalInv(p)' /\ HoldsPosted(p)'
    BY <1>3, <1>0, <2>1 DEF SkipDuplicate, LocalInv, WithInstance, HoldsPosted
  <2>3. QED
    BY <1>3, <1>0, <2>1, <2>2, LocalStep DEF SkipDuplicate, TypeOK
<1>4. CASE MarkDone(p)
  <2>1. /\ worker' \in [Workers -> WorkerState] /\ Others(p)
        /\ worker'[p].pc = "idle"
    BY <1>4, <1>0, FinishType
    DEF MarkDone, TypeOK, LocalInv, WorkerPc, WithInstance
  <2>2. LocalInv(p)' /\ HoldsPosted(p)'
    BY <1>4, <1>0, <2>1 DEF MarkDone, LocalInv, WithInstance, HoldsPosted
  <2>3. QED
    BY <1>4, <1>0, <2>1, <2>2, LocalStep DEF MarkDone, TypeOK, PendingDone
<1>5. CASE RefuseStart(p)
  <2>1. /\ worker' \in [Workers -> WorkerState] /\ Others(p)
        /\ worker'[p].pc = "markDone"
        /\ worker'[p].ev = worker[p].ev
        /\ worker'[p].inst = worker[p].inst
        /\ worker'[p].issue = worker[p].issue
    BY <1>5, <1>0, GotoType
    DEF RefuseStart, TypeOK, LocalInv, WorkerPc, WithInstance
  <2>2. LocalInv(p)' /\ HoldsPosted(p)'
    BY <1>5, <1>0, <2>1 DEF RefuseStart, LocalInv, WithInstance, HoldsPosted
  <2>3. QED
    BY <1>5, <1>0, <2>1, <2>2, LocalStep DEF RefuseStart, TypeOK
<1>6. CASE AllowStart(p)
  <2>1. /\ worker' \in [Workers -> WorkerState] /\ Others(p)
        /\ worker'[p].pc = "create"
        /\ worker'[p].ev = worker[p].ev
        /\ worker'[p].inst = worker[p].inst
        /\ worker'[p].issue = worker[p].issue
    BY <1>6, <1>0, GotoType
    DEF AllowStart, TypeOK, LocalInv, WorkerPc, WithInstance
  <2>2. LocalInv(p)' /\ HoldsPosted(p)'
    BY <1>6, <1>0, <2>1 DEF AllowStart, LocalInv, WithInstance, HoldsPosted
  <2>3. QED
    BY <1>6, <1>0, <2>1, <2>2, LocalStep DEF AllowStart, TypeOK
<1>7. CASE CreateInstance(p)
  <2>1. /\ worker' \in [Workers -> WorkerState] /\ Others(p)
        /\ worker'[p].pc = "setSession"
        /\ worker'[p].ev = worker[p].ev
        /\ worker'[p].issue = worker[p].issue
        /\ worker'[p].inst \in Instance
        /\ Save(worker'[p].inst) /\ Posted(worker'[p].inst)
        /\ created' \subseteq WorkflowIds
    <3>1. event[worker[p].ev] \in Event /\ event[worker[p].ev].key \in Keys
      BY <1>7, <1>0 DEF CreateInstance, LocalInv, EventInv, EventOf, TypeOK
    <3>2. PICK w \in WorkflowIds :
            /\ Save(NewInstance(w, event[worker[p].ev]))
            /\ created' = created \union {w}
            /\ GotoWith(p, "setSession", NewInstance(w, event[worker[p].ev]))
      BY <1>7 DEF CreateInstance
    <3> DEFINE i == NewInstance(w, event[worker[p].ev])
    <3>3. i \in Instance /\ i.messageTs = None
      BY <3>1, NewInstanceType
    <3>4. Save(i) /\ GotoWith(p, "setSession", i)
      BY <3>2
    <3> HIDE DEF i
    <3>5. QED
      BY <3>2, <3>3, <3>4, GotoWithType DEF TypeOK, WorkerPc, Posted
  <2>2. LocalInv(p)'
    BY <1>7, <1>0, <2>1 DEF CreateInstance, LocalInv, WithInstance
  <2> DEFINE i == worker'[p].inst
  <2>3. i \in Instance /\ Posted(i) /\ Save(i) /\ worker'[p].inst = i
    BY <2>1
  <2> HIDE DEF i
  <2>4. QED
    BY <1>7, <2>1, <2>2, <2>3, SaveStep DEF CreateInstance, TypeOK
<1>8. CASE SetSession(p)
  <2>1. /\ worker' \in [Workers -> WorkerState] /\ Others(p)
        /\ worker'[p].pc = "run"
        /\ worker'[p].ev = worker[p].ev
        /\ worker'[p].inst = worker[p].inst
        /\ worker'[p].issue = worker[p].issue
    BY <1>8, <1>0, GotoType
    DEF SetSession, TypeOK, LocalInv, WorkerPc, WithInstance
  <2>2. LocalInv(p)' /\ HoldsPosted(p)'
    BY <1>8, <1>0, <2>1
    DEF SetSession, LocalInv, WithInstance, HoldsPosted, MessageInv, Posted
  <2>3. QED
    BY <1>8, <1>0, <2>1, <2>2, LocalStep
    DEF SetSession, TypeOK, SessionSet, LocalInv, WithInstance, Instance
<1>9. CASE IgnoreResume(p)
  <2>1. /\ worker' \in [Workers -> WorkerState] /\ Others(p)
        /\ worker'[p].pc = "markDone"
        /\ worker'[p].ev = worker[p].ev
        /\ worker'[p].inst = worker[p].inst
        /\ worker'[p].issue = worker[p].issue
    BY <1>9, <1>0, GotoType
    DEF IgnoreResume, TypeOK, LocalInv, WorkerPc, WithInstance
  <2>2. LocalInv(p)' /\ HoldsPosted(p)'
    BY <1>9, <1>0, <2>1 DEF IgnoreResume, LocalInv, WithInstance, HoldsPosted
  <2>3. QED
    BY <1>9, <1>0, <2>1, <2>2, LocalStep DEF IgnoreResume, TypeOK
<1>10. CASE LoadInstance(p)
  <2>1. /\ worker' \in [Workers -> WorkerState] /\ Others(p)
        /\ worker'[p].pc = "saveResumed"
        /\ worker'[p].ev = worker[p].ev
        /\ worker'[p].issue = worker[p].issue
        /\ worker'[p].inst \in Instance
        /\ Posted(worker'[p].inst)
    <3> DEFINE old == wfTable[event[worker[p].ev].wf]
               i == Resumed(old, worker[p].ev, event[worker[p].ev])
    <3>1. /\ worker[p].ev \in Events /\ event[worker[p].ev] \in Event
          /\ event[worker[p].ev].wf \in WorkflowIds
          /\ event[worker[p].ev].type \in ResumeActions
      BY <1>10, <1>0
      DEF LoadInstance, LocalInv, EventInv, EventOf, TypeOK, Event
    <3>2. old \in Instance /\ Posted(old)
      BY <1>10, <3>1 DEF LoadInstance, Resumable, TypeOK, MessageInv
    <3>3. GotoWith(p, "saveResumed", i)
      BY <1>10 DEF LoadInstance
    <3> HIDE DEF old
    <3>4. i \in Instance /\ Posted(i)
      BY <3>1, <3>2, ResumedType DEF Posted
    <3> HIDE DEF i
    <3>5. QED
      BY <3>3, <3>4, GotoWithType DEF TypeOK, WorkerPc
  <2>2. LocalInv(p)' /\ HoldsPosted(p)'
    BY <1>10, <1>0, <2>1
    DEF LoadInstance, LocalInv, WithInstance, HoldsPosted, MessageInv, Posted
  <2>3. QED
    BY <1>10, <1>0, <2>1, <2>2, LocalStep DEF LoadInstance, TypeOK
<1>11. CASE SaveResumed(p)
  <2>1. /\ worker' \in [Workers -> WorkerState] /\ Others(p)
        /\ worker'[p].pc = "run"
        /\ worker'[p].ev = worker[p].ev
        /\ worker'[p].inst = worker[p].inst
        /\ worker'[p].issue = worker[p].issue
    BY <1>11, <1>0, GotoType
    DEF SaveResumed, TypeOK, LocalInv, WorkerPc, WithInstance
  <2>2. LocalInv(p)'
    BY <1>11, <1>0, <2>1 DEF SaveResumed, LocalInv, WithInstance
  <2>3. worker[p].inst \in Instance /\ Posted(worker[p].inst)
    BY <1>11, <1>0
    DEF SaveResumed, LocalInv, WithInstance, MessageInv, HoldsPosted
  <2>4. QED
    BY <1>11, <2>1, <2>2, <2>3, SaveStep DEF SaveResumed, TypeOK
<1>12. CASE FailUnknownStep(p)
  <2>1. /\ worker' \in [Workers -> WorkerState] /\ Others(p)
        /\ worker'[p].pc = "saveEnd"
        /\ worker'[p].ev = worker[p].ev
        /\ worker'[p].issue = worker[p].issue
        /\ worker'[p].inst \in Instance
        /\ worker'[p].inst.messageTs = worker[p].inst.messageTs
    <3> DEFINE i == [Inst(p) EXCEPT !.status = "FAILED"]
    <3>1. i \in Instance /\ i.messageTs = Inst(p).messageTs
      BY <1>12, <1>0
      DEF FailUnknownStep, LocalInv, WithInstance, Instance, Status
    <3>2. GotoWith(p, "saveEnd", i)
      BY <1>12 DEF FailUnknownStep
    <3> HIDE DEF i
    <3>3. QED
      BY <3>1, <3>2, GotoWithType DEF TypeOK, WorkerPc
  <2>2. LocalInv(p)' /\ HoldsPosted(p)'
    BY <1>12, <1>0, <2>1
    DEF FailUnknownStep, LocalInv, WithInstance, HoldsPosted, MessageInv,
        Posted
  <2>3. QED
    BY <1>12, <1>0, <2>1, <2>2, LocalStep DEF FailUnknownStep, TypeOK
<1>13. CASE ContinueStep(p)
  <2>1. /\ worker' \in [Workers -> WorkerState] /\ Others(p)
        /\ worker'[p].pc = "run"
        /\ worker'[p].ev = worker[p].ev
        /\ worker'[p].issue = worker[p].issue
        /\ worker'[p].inst \in Instance
        /\ Posted(worker'[p].inst) /\ Save(worker'[p].inst)
    <3>1. PICK finding \in Findings :
            LET out == ApplyOutput(Inst(p).step, Inst(p), Ev(p), finding)
                i   == [out EXCEPT !.step = OnContinue[out.step]]
            IN  Save(i) /\ GotoWith(p, "run", i)
      BY <1>13 DEF ContinueStep
    <3> DEFINE out == ApplyOutput(Inst(p).step, Inst(p), Ev(p), finding)
               i   == [out EXCEPT !.step = OnContinue[out.step]]
    <3>2. Inst(p) \in Instance /\ Inst(p).step \in ContinueSteps
          /\ Posted(Inst(p))
      BY <1>13, <1>0
      DEF ContinueStep, AtStep, LocalInv, WithInstance, MessageInv, HoldsPosted
    <3>3. i \in Instance /\ i.messageTs = Inst(p).messageTs
      <4>1. finding \in {"anchored", "unanchored"} /\ Ev(p) \in Events
        BY <1>13, <1>0, InputsAssumption DEF LocalInv, ContinueStep, AtStep
      <4>2. QED
        BY <4>1, <3>2
        DEF ApplyOutput, FindRelevantBc, FindRelevantIssue,
            GenerateIssueDraft, RegenerateIssueDraft, Instance, OnContinue,
            Steps, ContinueSteps, WaitSteps, StopSteps, MaybeEvent
    <3>4. Save(i) /\ GotoWith(p, "run", i)
      BY <3>1
    <3> HIDE DEF i
    <3>5. QED
      BY <3>2, <3>3, <3>4, GotoWithType DEF TypeOK, WorkerPc, Posted
  <2>2. LocalInv(p)'
    BY <1>13, <1>0, <2>1 DEF ContinueStep, LocalInv, WithInstance, AtStep
  <2> DEFINE i == worker'[p].inst
  <2>3. i \in Instance /\ Posted(i) /\ Save(i) /\ worker'[p].inst = i
    BY <2>1
  <2> HIDE DEF i
  <2>4. QED
    BY <1>13, <2>1, <2>2, <2>3, SaveStep DEF ContinueStep, TypeOK
<1>14. CASE RaiseNotReady(p)
  <2>1. /\ worker' \in [Workers -> WorkerState] /\ Others(p)
        /\ worker'[p].pc = "idle"
    BY <1>14, <1>0, FinishType
    DEF RaiseNotReady, TypeOK, LocalInv, WorkerPc, WithInstance
  <2>2. LocalInv(p)' /\ HoldsPosted(p)'
    BY <1>14, <1>0, <2>1 DEF RaiseNotReady, LocalInv, WithInstance, HoldsPosted
  <2>3. QED
    BY <1>14, <1>0, <2>1, <2>2, LocalStep DEF RaiseNotReady, TypeOK
<1>15. CASE PostWaitMessage(p)
  <2>1. /\ worker' \in [Workers -> WorkerState] /\ Others(p)
        /\ worker'[p].pc = "saveWaiting"
        /\ worker'[p].ev = worker[p].ev
        /\ worker'[p].issue = worker[p].issue
        /\ worker'[p].inst \in Instance
        /\ worker'[p].inst.messageTs = worker[p].ev /\ worker[p].ev \in Events
    <3> DEFINE i == [Inst(p) EXCEPT !.messageTs = Ev(p), !.status = "WAITING"]
    <3>1. i \in Instance /\ i.messageTs = Ev(p) /\ Ev(p) \in Events
      BY <1>15, <1>0
      DEF PostWaitMessage, LocalInv, WithInstance, AtStep, Instance, Status,
          MaybeEvent
    <3>2. GotoWith(p, "saveWaiting", i)
      BY <1>15 DEF PostWaitMessage
    <3> HIDE DEF i
    <3>3. QED
      BY <3>1, <3>2, GotoWithType DEF TypeOK, WorkerPc
  <2>2. TypeOK'
    BY <1>15, <1>0, <2>1
    DEF TypeOK, PostWaitMessage, WaitMessage, AtStep, LocalInv, WithInstance,
        Instance, Message
  <2>3. EventInv' /\ EventsStay
    BY <1>15 DEF TypeOK, EventInv, EventsStay, PostWaitMessage
  <2>4. LocalInv(p)'
    BY <1>15, <1>0, <2>1 DEF LocalInv, WithInstance, PostWaitMessage, AtStep
  <2>5. WorkerInv'
    BY <1>15, <2>1, <2>2, <2>3, <2>4, WorkerFrame DEF TypeOK, PostWaitMessage
  <2>6. DropInv'
    BY <1>15 DEF DropInv, PostWaitMessage
  <2>7. MessageInv'
    <3>1. MessagesStay /\ message'[worker[p].ev] # None
      <4> DEFINE new == WaitMessage(Inst(p))
      <4>1. new \in Message
        BY <1>15, <1>0
        DEF PostWaitMessage, WaitMessage, AtStep, LocalInv, Message, Instance,
            WithInstance
      <4>2. message' = [message EXCEPT ![worker[p].ev] = new]
        BY <1>15 DEF PostWaitMessage
      <4> HIDE DEF new
      <4>3. QED
        BY <2>1, <4>1, <4>2, NoneIsNoRecord DEF TypeOK, MessagesStay
    <3>2. QED
      BY <1>15, <2>1, <2>2, <3>1, MessageFrame
      DEF PostWaitMessage, HoldsPosted, Posted
  <2>8. QED  BY <2>2, <2>3, <2>5, <2>6, <2>7
<1>16. CASE SaveWaiting(p)
  <2>1. /\ worker' \in [Workers -> WorkerState] /\ Others(p)
        /\ worker'[p].pc = "markDone"
        /\ worker'[p].ev = worker[p].ev
        /\ worker'[p].inst = worker[p].inst
        /\ worker'[p].issue = worker[p].issue
    BY <1>16, <1>0, GotoType
    DEF SaveWaiting, TypeOK, LocalInv, WorkerPc, WithInstance
  <2>2. LocalInv(p)'
    BY <1>16, <1>0, <2>1 DEF SaveWaiting, LocalInv, WithInstance
  <2>3. worker[p].inst \in Instance /\ Posted(worker[p].inst)
    BY <1>16, <1>0
    DEF SaveWaiting, LocalInv, WithInstance, MessageInv, HoldsPosted
  <2>4. QED
    BY <1>16, <2>1, <2>2, <2>3, SaveStep DEF SaveWaiting, TypeOK
<1>17. CASE RejectEnd(p)
  <2>1. /\ worker' \in [Workers -> WorkerState] /\ Others(p)
        /\ worker'[p].pc = "notify"
        /\ worker'[p].ev = worker[p].ev
        /\ worker'[p].issue = worker[p].issue
        /\ worker'[p].inst \in Instance
        /\ worker'[p].inst.messageTs = worker[p].inst.messageTs
    <3> DEFINE i == [Inst(p) EXCEPT !.status = "COMPLETED"]
    <3>1. i \in Instance /\ i.messageTs = Inst(p).messageTs
      BY <1>17, <1>0
      DEF RejectEnd, LocalInv, WithInstance, AtStep, Instance, Status
    <3>2. GotoWith(p, "notify", i)
      BY <1>17 DEF RejectEnd
    <3> HIDE DEF i
    <3>3. QED
      BY <3>1, <3>2, GotoWithType DEF TypeOK, WorkerPc
  <2>2. LocalInv(p)' /\ HoldsPosted(p)'
    BY <1>17, <1>0, <2>1
    DEF RejectEnd, LocalInv, WithInstance, HoldsPosted, MessageInv, Posted,
        AtStep
  <2>3. QED
    BY <1>17, <1>0, <2>1, <2>2, LocalStep DEF RejectEnd, TypeOK
<1>18. CASE CreateIssue(p)
  <2>1. /\ worker' \in [Workers -> WorkerState] /\ Others(p)
        /\ worker'[p].pc \in {"notify", "relate"}
        /\ worker'[p].ev = worker[p].ev
        /\ worker'[p].issue = Len(issues) + 1
        /\ worker'[p].inst \in Instance
        /\ worker'[p].inst.messageTs = worker[p].inst.messageTs
        /\ Len(issues)' = Len(issues) + 1 /\ issues' \in Seq(Issue)
    <3> DEFINE n == Len(issues) + 1
               new == [ev |-> Ev(p), wf |-> Inst(p).id,
               draft |-> Inst(p).draft,
                       relation |-> "none"]
               i == Filed(Inst(p), n)
    <3>1. n \in Nat \ {0} /\ Inst(p) \in Instance /\ Ev(p) \in Events
      BY <1>18, <1>0 DEF CreateIssue, AtStep, LocalInv, WithInstance, TypeOK
    <3>2. new \in Issue
      BY <3>1 DEF Issue, Relations, Instance
    <3>3. i \in Instance /\ i.messageTs = Inst(p).messageTs
      BY <3>1, FiledType
    <3>4. /\ issues' = Append(issues, new)
          /\ \/ worker' = [worker EXCEPT ![p] = [@ EXCEPT !.pc = "notify",
                                             !.issue = n, !.inst = i]]
             \/ worker' = [worker EXCEPT ![p] = [@ EXCEPT !.pc = "relate",
                                             !.issue = n]]
      BY <1>18, Zenon DEF CreateIssue
    <3> HIDE DEF i, new
    <3>5. Len(issues)' = Len(issues) + 1 /\ issues' \in Seq(Issue)
      BY <3>2, <3>4 DEF TypeOK
    <3>6. CASE worker' = [worker EXCEPT ![p] = [@ EXCEPT !.pc = "notify",
                                             !.issue = n, !.inst = i]]
      BY <3>1, <3>3, <3>5, <3>6, <1>0 DEF TypeOK, WorkerState, WorkerPc, Others
    <3>7. CASE worker' = [worker EXCEPT ![p] = [@ EXCEPT !.pc = "relate",
                                             !.issue = n]]
      BY <3>1, <3>5, <3>7, <1>0 DEF TypeOK, WorkerState, WorkerPc, Others
    <3>8. QED
      BY <3>4, <3>6, <3>7
  <2>2. TypeOK'
    BY <1>18, <1>0, <2>1 DEF TypeOK, CreateIssue
  <2>3. EventInv' /\ EventsStay
    BY <1>18 DEF TypeOK, EventInv, EventsStay, CreateIssue
  <2>4. LocalInv(p)'
    BY <1>18, <1>0, <2>1
    DEF LocalInv, WithInstance, CreateIssue, AtStep, TypeOK
  <2>5. WorkerInv'
    <3>1. Len(issues) \in Nat /\ EventsStay
      BY <2>3 DEF TypeOK
    <3>2. QED
      BY <2>1, <2>4, <3>1, WorkerFrame
  <2>6. DropInv'
    BY <1>18 DEF DropInv, CreateIssue
  <2>7. MessageInv'
    BY <1>18, <1>0, <2>1, <2>2, MessageFrame
    DEF MessagesStay, MessageInv, HoldsPosted, LocalInv, WithInstance,
        Posted, CreateIssue, AtStep
  <2>8. QED  BY <2>2, <2>3, <2>5, <2>6, <2>7
<1>19. CASE SetRelation(p)
  <2>1. /\ worker' \in [Workers -> WorkerState] /\ Others(p)
        /\ worker'[p].pc = "notify"
        /\ worker'[p].ev = worker[p].ev
        /\ worker'[p].issue = worker[p].issue
        /\ worker'[p].inst \in Instance
        /\ worker'[p].inst.messageTs = worker[p].inst.messageTs
        /\ Len(issues)' = Len(issues) /\ issues' \in Seq(Issue)
    <3> DEFINE i == Filed(Inst(p), worker[p].issue)
    <3>1. i \in Instance /\ i.messageTs = Inst(p).messageTs
      BY <1>19, <1>0, FiledType
      DEF SetRelation, LocalInv, WithInstance, WorkerState
    <3>2. GotoWith(p, "notify", i)
      BY <1>19 DEF SetRelation
    <3>3. RelationOf(Inst(p)) \in Relations
      BY DEF RelationOf, RelationFor, Relations
    <3>4. Len(issues)' = Len(issues) /\ issues' \in Seq(Issue)
      <4>1. worker[p].issue \in 1 .. Len(issues)
        BY <1>19, <1>0 DEF SetRelation, LocalInv
      <4>2. issues[worker[p].issue] \in Issue
        BY <4>1 DEF TypeOK
      <4>3. [issues[worker[p].issue]
               EXCEPT !.relation = RelationOf(Inst(p))] \in Issue
        BY <3>3, <4>2 DEF Issue
      <4>4. QED
        BY <1>19, <4>1, <4>3 DEF SetRelation, TypeOK
    <3> HIDE DEF i
    <3>5. QED
      BY <3>1, <3>2, <3>4, GotoWithType DEF TypeOK, WorkerPc
  <2>2. TypeOK'
    BY <1>19, <1>0, <2>1 DEF TypeOK, SetRelation
  <2>3. EventInv' /\ EventsStay
    BY <1>19 DEF TypeOK, EventInv, EventsStay, SetRelation
  <2>4. LocalInv(p)'
    BY <1>19, <1>0, <2>1 DEF LocalInv, WithInstance, SetRelation
  <2>5. WorkerInv'
    BY <1>19, <2>1, <2>2, <2>3, <2>4, WorkerFrame DEF TypeOK, SetRelation
  <2>6. DropInv'
    BY <1>19 DEF DropInv, SetRelation
  <2>7. MessageInv'
    BY <1>19, <1>0, <2>1, <2>2, MessageFrame
    DEF MessagesStay, MessageInv, HoldsPosted, LocalInv, WithInstance,
        Posted, SetRelation
  <2>8. QED  BY <2>2, <2>3, <2>5, <2>6, <2>7
<1>20. CASE NotifyEnd(p)
  <2>1. /\ worker' \in [Workers -> WorkerState] /\ Others(p)
        /\ worker'[p].pc = "saveEnd"
        /\ worker'[p].ev = worker[p].ev
        /\ worker'[p].inst = worker[p].inst
        /\ worker'[p].issue = worker[p].issue
    BY <1>20, <1>0, GotoType
    DEF NotifyEnd, TypeOK, LocalInv, WorkerPc, WithInstance
  <2>2. TypeOK'
    BY <1>20, <1>0, <2>1
    DEF TypeOK, NotifyEnd, Message, MessageInv, HoldsPosted, Posted,
        LocalInv, WithInstance
  <2>3. EventInv' /\ EventsStay
    BY <1>20 DEF TypeOK, EventInv, EventsStay, NotifyEnd
  <2>4. LocalInv(p)'
    BY <1>20, <1>0, <2>1 DEF LocalInv, WithInstance, NotifyEnd
  <2>5. WorkerInv'
    BY <1>20, <2>1, <2>2, <2>3, <2>4, WorkerFrame DEF TypeOK, NotifyEnd
  <2>6. DropInv'
    BY <1>20 DEF DropInv, NotifyEnd
  <2>7. MessageInv'
    <3>1. MessagesStay
      <4> DEFINE m == Inst(p).messageTs
                 new == [message[m] EXCEPT !.live = FALSE]
      <4>1. CASE m = None
        BY <1>20, <4>1 DEF NotifyEnd, MessagesStay
      <4>2. CASE m # None
        <5>1. m \in Events /\ message[m] \in Message
          BY <1>20, <1>0, <4>2
          DEF NotifyEnd, LocalInv, WithInstance, MessageInv, HoldsPosted,
              Posted, Instance,
              MaybeEvent, TypeOK
        <5>2. new \in Message
          BY <5>1 DEF Message
        <5>3. message' = [message EXCEPT ![m] = new]
          BY <1>20, <4>2 DEF NotifyEnd
        <5> HIDE DEF m, new
        <5>4. QED
          BY <5>1, <5>2, <5>3, NoneIsNoRecord DEF TypeOK, MessagesStay
      <4>3. QED
        BY <4>1, <4>2
    <3>2. HoldsPosted(p)'
      BY <1>20, <1>0, <2>1, <3>1
      DEF NotifyEnd, LocalInv, WithInstance, MessageInv, HoldsPosted, Posted,
          MessagesStay, Instance, MaybeEvent
    <3>3. QED
      BY <1>20, <2>1, <2>2, <3>1, <3>2, MessageFrame DEF NotifyEnd
  <2>8. QED  BY <2>2, <2>3, <2>5, <2>6, <2>7
<1>21. CASE SaveEnd(p)
  <2>1. /\ worker' \in [Workers -> WorkerState] /\ Others(p)
        /\ worker'[p].pc = "clearSession"
        /\ worker'[p].ev = worker[p].ev
        /\ worker'[p].inst = worker[p].inst
        /\ worker'[p].issue = worker[p].issue
    BY <1>21, <1>0, GotoType
    DEF SaveEnd, TypeOK, LocalInv, WorkerPc, WithInstance
  <2>2. LocalInv(p)'
    BY <1>21, <1>0, <2>1 DEF SaveEnd, LocalInv, WithInstance
  <2>3. worker[p].inst \in Instance /\ Posted(worker[p].inst)
    BY <1>21, <1>0 DEF SaveEnd, LocalInv, WithInstance, MessageInv, HoldsPosted
  <2>4. QED
    BY <1>21, <2>1, <2>2, <2>3, SaveStep DEF SaveEnd, TypeOK
<1>22. CASE ClearSession(p)
  <2>1. /\ worker' \in [Workers -> WorkerState] /\ Others(p)
        /\ worker'[p].pc = "markDone"
        /\ worker'[p].ev = worker[p].ev
        /\ worker'[p].inst = worker[p].inst
        /\ worker'[p].issue = worker[p].issue
    BY <1>22, <1>0, GotoType
    DEF ClearSession, TypeOK, LocalInv, WorkerPc, WithInstance
  <2>2. LocalInv(p)' /\ HoldsPosted(p)'
    BY <1>22, <1>0, <2>1 DEF ClearSession, LocalInv, WithInstance, HoldsPosted
  <2>3. QED
    BY <1>22, <1>0, <2>1, <2>2, LocalStep
    DEF ClearSession, TypeOK, SessionClear
<1> QED
  BY <1>1, <1>2, <1>3, <1>4, <1>5, <1>6, <1>7, <1>8, <1>9, <1>10, <1>11,
     <1>12, <1>13, <1>14, <1>15, <1>16, <1>17, <1>18, <1>19, <1>20, <1>21,
     <1>22
  DEF WorkerStep, Start, Resume, Execute

LEMMA SpendType ==
  ASSUME TypeOK, NEW f \in Faults, Spend(f)
  PROVE  budget' \in [Faults -> Nat]
  BY DEF Spend, TypeOK

LEMMA ReturnType ==
  ASSUME TypeOK, EventInv, NEW d \in Events, event[d] # None, NEW r \in Nat,
         ReturnMessage(d, r), UNCHANGED event
  PROVE  /\ queue' \in [Events -> [Receives -> Nat]]
         /\ dlq' \subseteq Events
         /\ EventInv'
<1>1. CASE r + 1 \in Receives
  <2>1. queue \in [Events -> [Receives -> Nat]] /\ dlq \subseteq Events
    BY DEF TypeOK
  <2>2. queue' = [queue EXCEPT ![d][r + 1] = queue[d][r + 1] + 1] /\ dlq' = dlq
    BY <1>1 DEF ReturnMessage
  <2>3. queue' \in [Events -> [Receives -> Nat]]
    BY <1>1, <2>1, <2>2
  <2>4. \A c \in Events : c # d => queue'[c] = queue[c]
    BY <2>1, <2>2
  <2>5. QED
    BY <2>1, <2>2, <2>3, <2>4 DEF EventInv
<1>2. CASE r + 1 \notin Receives
  BY <1>2 DEF ReturnMessage, TypeOK, EventInv
<1> QED
  BY <1>1, <1>2

(***************************************************************************)
(* The two ways an invocation ends before its time.                        *)
(***************************************************************************)
LEMMA FailureKeepsTypeInv ==
  ASSUME TypeInv, NEW p \in Workers, Raise(p) \/ Crash(p)
  PROVE  TypeInv'
<1> USE DEF TypeInv, tables, sqs, slack, At, Ev
<1>1. /\ UNCHANGED <<wfTable, created, session, pending, event, message, modal,
                     issues, drop>>
      /\ Finish(p)
      /\ budget' \in [Faults -> Nat]
  BY SpendType DEF Raise, Crash, Faults
<1>2. /\ worker' \in [Workers -> WorkerState] /\ Others(p)
      /\ worker'[p].pc = "idle"
  BY <1>1, FinishType DEF TypeOK
<1>3. /\ queue' \in [Events -> [Receives -> Nat]] /\ dlq' \subseteq Events
      /\ EventInv'
  <2>1. CASE Raise(p)
    BY <2>1, <1>1 DEF Raise, TypeOK, EventInv
  <2>2. CASE Crash(p)
    <3>1. worker[p].ev \in Events /\ event[worker[p].ev] # None
      BY <2>2 DEF Crash, WorkerInv, LocalInv
    <3>2. ReturnMessage(worker[p].ev, worker[p].receives)
      BY <2>2 DEF Crash
    <3>3. worker[p].receives \in Nat
      BY BoundsAssumption DEF TypeOK, WorkerState, Receives
    <3>4. QED
      BY <1>1, <3>1, <3>2, <3>3, ReturnType
  <2>3. QED
    BY <2>1, <2>2
<1>4. TypeOK'
  BY <1>1, <1>2, <1>3 DEF TypeOK
<1>5. LocalInv(p)'
  BY <1>2 DEF LocalInv, WithInstance
<1>6. WorkerInv'
  BY <1>1, <1>2, <1>5, WorkerFrame DEF TypeOK, EventsStay
<1>7. DropInv'
  BY <1>1 DEF DropInv
<1>8. MessageInv'
  BY <1>1, <1>2, <1>4, MessageFrame DEF MessagesStay, HoldsPosted, WithInstance
<1> QED
  BY <1>3, <1>4, <1>6, <1>7, <1>8

-----------------------------------------------------------------------------
(* Every step of the Ack Lambda preserves TypeInv.                         *)

(* what the users do leaves the workers, the drops and the records alone *)
LEMMA UserFrame ==
  ASSUME TypeInv, EventInv', EventsStay,
         UNCHANGED <<tables, message, issues, worker, drop>>,
         event' \in [Events -> Event \union {None}],
         queue' \in [Events -> [Receives -> Nat]],
         dlq' \subseteq Events, modal' \subseteq WorkflowIds,
         budget' \in [Faults -> Nat]
  PROVE  TypeInv'
<1>1. TypeOK'
  BY DEF TypeInv, TypeOK, tables
<1>2. WorkerInv'
  BY DEF TypeInv, WorkerInv, LocalInv, EventsStay
<1>3. DropInv' /\ MessageInv'
  BY DEF TypeInv, DropInv, MessageInv, HoldsPosted, Posted, tables
<1> QED
  BY <1>1, <1>2, <1>3 DEF TypeInv

LEMMA StartEventType ==
  ASSUME NEW k \in Keys, NEW sub \in Requests
  PROVE  StartEvent(k, sub) \in Event /\ EventOf(StartEvent(k, sub))
  BY InputsAssumption DEF StartEvent, Event, EventOf

LEMMA ResumeEventType ==
  ASSUME NEW a \in ResumeActions, NEW w \in WorkflowIds, NEW fb \in BOOLEAN
  PROVE  ResumeEvent(a, w, fb) \in Event /\ EventOf(ResumeEvent(a, w, fb))
  BY DEF ResumeEvent, Event, EventOf, Subcommands, ResumeActions, Decision

LEMMA PressableType ==
  ASSUME TypeOK, NEW m \in Events, NEW step, Pressable(m, step)
  PROVE  message[m].wf \in WorkflowIds
  BY DEF TypeOK, Pressable, Message

LEMMA UserKeepsTypeInv ==
  ASSUME TypeInv, User
  PROVE  TypeInv'
<1> USE DEF tables, slack
<1>1. ASSUME NEW d \in Events, NEW k \in Keys, NEW sub \in Requests,
             SubmitRequest(d, k, sub)
      PROVE  TypeInv'
  <2>1. Send(d, StartEvent(k, sub))
    BY <1>1 DEF SubmitRequest
  <2>2. /\ event' \in [Events -> Event \union {None}]
        /\ queue' \in [Events -> [Receives -> Nat]]
        /\ dlq' \subseteq Events /\ EventInv' /\ EventsStay
    BY <2>1, StartEventType, SendType DEF TypeInv
  <2>3. QED
    BY <1>1, <2>2, UserFrame DEF SubmitRequest, TypeInv, TypeOK
<1>2. ASSUME NEW d \in Events, NEW m \in Events, PressAccept(d, m)
      PROVE  TypeInv'
  <2>1. Send(d, ResumeEvent("accept", message[m].wf, FALSE))
    BY <1>2 DEF PressAccept
  <2>2. message[m].wf \in WorkflowIds /\ "accept" \in ResumeActions
    BY <1>2, PressableType DEF PressAccept, TypeInv, ResumeActions
  <2>3. /\ event' \in [Events -> Event \union {None}]
        /\ queue' \in [Events -> [Receives -> Nat]]
        /\ dlq' \subseteq Events /\ EventInv' /\ EventsStay
    BY <2>1, <2>2, ResumeEventType, SendType DEF TypeInv
  <2>4. QED
    BY <1>2, <2>3, UserFrame DEF PressAccept, TypeInv, TypeOK
<1>3. ASSUME NEW d \in Events, NEW m \in Events, NEW decision \in Choices,
             PressDecision(d, m, decision)
      PROVE  TypeInv'
  <2>1. Send(d, ResumeEvent(decision, message[m].wf, FALSE))
    BY <1>3 DEF PressDecision
  <2>2. message[m].wf \in WorkflowIds /\ decision \in ResumeActions
    BY <1>3, PressableType, InputsAssumption
    DEF PressDecision, TypeInv, ResumeActions
  <2>3. /\ event' \in [Events -> Event \union {None}]
        /\ queue' \in [Events -> [Receives -> Nat]]
        /\ dlq' \subseteq Events /\ EventInv' /\ EventsStay
    BY <2>1, <2>2, ResumeEventType, SendType DEF TypeInv
  <2>4. QED
    BY <1>3, <2>3, UserFrame DEF PressDecision, TypeInv, TypeOK
<1>4. ASSUME NEW d \in Events, NEW w \in WorkflowIds, NEW fb \in Comments,
             SubmitReject(d, w, fb)
      PROVE  TypeInv'
  <2>1. Send(d, ResumeEvent("reject", w, fb))
    BY <1>4 DEF SubmitReject
  <2>2. "reject" \in ResumeActions /\ fb \in BOOLEAN
    BY InputsAssumption DEF ResumeActions
  <2>3. /\ event' \in [Events -> Event \union {None}]
        /\ queue' \in [Events -> [Receives -> Nat]]
        /\ dlq' \subseteq Events /\ EventInv' /\ EventsStay
    BY <2>1, <2>2, ResumeEventType, SendType DEF TypeInv
  <2>4. QED
    BY <1>4, <2>3, UserFrame DEF SubmitReject, TypeInv, TypeOK
<1>5. ASSUME NEW m \in Events, PressReject(m)
      PROVE  TypeInv'
  BY <1>5, PressableType, UserFrame
  DEF PressReject, TypeInv, TypeOK, EventInv, EventsStay, sqs
<1> QED
  BY <1>1, <1>2, <1>3, <1>4, <1>5 DEF User, Press

LEMMA ResendKeepsTypeInv ==
  ASSUME TypeInv, NEW d \in Events, Resend(d)
  PROVE  TypeInv'
<1> USE DEF tables, slack
<1>1. 0 \in Receives
  BY BoundsAssumption DEF Receives
<1>2. queue' \in [Events -> [Receives -> Nat]] /\ EventInv' /\ EventsStay
  BY <1>1 DEF Resend, TypeInv, TypeOK, EventInv, EventsStay
<1>3. budget' \in [Faults -> Nat]
  BY SpendType DEF Resend, Faults, TypeInv
<1> QED
  BY <1>2, <1>3, UserFrame DEF Resend, TypeInv, TypeOK

-----------------------------------------------------------------------------
(* Drops and expiry.                                                       *)

LEMMA DropKeepsTypeInv ==
  ASSUME TypeInv, NEW a \in Invocations, Drop(a) \/ DropStep(a) \/ DropCrash(a)
  PROVE  TypeInv'
<1> USE DEF TypeInv, tables, sqs, slack, DropAt
<1>1. CASE Drop(a)
  <2>1. PICK k \in Keys, w \in WorkflowIds : BeginDrop(a, k, w)
    <3>1. ASSUME NEW k \in Keys, DropCommand(a, k)
          PROVE  session[k] \in WorkflowIds /\ BeginDrop(a, k, session[k])
      BY <3>1 DEF DropCommand, TypeOK
    <3>2. ASSUME NEW m \in Events, NEW k \in Keys, DropButton(a, m, k)
          PROVE  message[m].wf \in WorkflowIds /\ BeginDrop(a, k,
          message[m].wf)
      BY <3>2, PressableType DEF DropButton
    <3>3. QED
      BY <1>1, <3>1, <3>2 DEF Drop
  <2>2. UNCHANGED <<wfTable, created, session, pending, event, queue, dlq,
                    message, modal, issues, worker, budget>>
    BY <1>1 DEF Drop, DropCommand, DropButton
  <2>3. TypeOK'
    BY <2>1, <2>2 DEF BeginDrop, TypeOK, DropState
  <2>4. DropInv' /\ MessageInv'
    BY <2>1, <2>2
    DEF BeginDrop, TypeOK, DropInv, MessageInv, HoldsPosted, Posted
  <2>5. EventInv' /\ WorkerInv'
    BY <2>2 DEF EventInv, WorkerInv, LocalInv
  <2>6. QED
    BY <2>3, <2>4, <2>5
<1>2. CASE DropLoad(a)
  <2>1. drop[a].key \in Keys /\ drop[a].wf \in WorkflowIds
    BY <1>2 DEF DropLoad, DropInv
  <2>2. TypeOK'
    <3>1. PICK pc \in {"clear", "save"} :
            drop' = [drop EXCEPT ![a].inst = wfTable[drop[a].wf], ![a].pc = pc]
      BY <1>2 DEF DropLoad
    <3>2. wfTable[drop[a].wf] \in Instance \union {None}
      BY <2>1 DEF TypeOK
    <3>3. [drop[a] EXCEPT !.inst = wfTable[drop[a].wf], !.pc = pc] \in DropState
      BY <3>2 DEF TypeOK, DropState
    <3>4. drop' \in [Invocations -> DropState]
      BY <3>1, <3>3 DEF TypeOK
    <3>5. QED
      BY <1>2, <3>4 DEF DropLoad, TypeOK
  <2>3. DropInv'
    BY <1>2, <2>1 DEF DropLoad, TypeOK, DropInv, DropState
  <2>4. MessageInv'
    BY <1>2, <2>1
    DEF DropLoad, TypeOK, MessageInv, HoldsPosted, Posted, DropState
  <2>5. EventInv' /\ WorkerInv'
    BY <1>2 DEF DropLoad, EventInv, WorkerInv, LocalInv
  <2>6. QED
    BY <2>2, <2>3, <2>4, <2>5
<1>3. CASE DropSave(a)
  <2> DEFINE i == [drop[a].inst EXCEPT !.status = "CANCELLED"]
  <2>1. i \in Instance /\ i.id \in WorkflowIds /\ Posted(i)
    BY <1>3
    DEF DropSave, DropInv, MessageInv, HoldsPosted, Posted, Instance, Status
  <2>2. Save(i) /\ DropGoto(a, "clear")
    BY <1>3 DEF DropSave
  <2> HIDE DEF i
  <2>3. UNCHANGED <<created, session, pending, event, queue, dlq, message,
                    modal, issues, worker, budget>>
    BY <1>3 DEF DropSave
  <2>4. TypeOK'
    BY <2>1, <2>2, <2>3 DEF Save, DropGoto, TypeOK, DropState
  <2>5. DropInv'
    BY <1>3, <2>2 DEF DropSave, DropGoto, TypeOK, DropInv, DropState
  <2>6. MessageInv'
    BY <2>1, <2>2, <2>3, NoneIsNoRecord
    DEF Save, DropGoto, TypeOK, MessageInv, HoldsPosted, Posted, DropState
  <2>7. EventInv' /\ WorkerInv'
    BY <2>3 DEF EventInv, WorkerInv, LocalInv
  <2>8. QED
    BY <2>4, <2>5, <2>6, <2>7
<1>4. CASE DropLoadFails(a) \/ DropClear(a) \/ DropCrash(a)
  <2>1. /\ \/ DropGoto(a, "done")
           \/ DropGoto(a, "failed")
           \/ DropGoto(a, "dead")
        /\ drop[a].pc # "ready"
        /\ UNCHANGED <<wfTable, created, pending, event, queue, dlq, message,
                       modal, issues, worker>>
    BY <1>4 DEF DropLoadFails, DropClear, DropCrash
  <2>2. /\ session' \in [Keys -> WorkflowIds \union {None}]
        /\ budget' \in [Faults -> Nat]
    BY <1>4, SpendType
    DEF DropLoadFails, DropClear, DropCrash, SessionClear, Faults, TypeOK
  <2>3. PICK pc \in {"done", "failed", "dead"} : DropGoto(a, pc)
    BY <2>1
  <2>4. TypeOK'
    <3>1. drop' \in [Invocations -> DropState]
      <4>1. [drop[a] EXCEPT !.pc = pc] \in DropState
        BY DEF TypeOK, DropState
      <4>2. QED
        BY <2>3, <4>1 DEF DropGoto, TypeOK
    <3>2. QED
      BY <2>1, <2>2, <3>1 DEF TypeOK
  <2>5. DropInv'
    BY <2>1, <2>3 DEF DropGoto, TypeOK, DropInv, DropState
  <2>6. MessageInv'
    BY <2>1, <2>3
    DEF DropGoto, TypeOK, MessageInv, HoldsPosted, Posted, DropState
  <2>7. EventInv' /\ WorkerInv'
    BY <2>1 DEF EventInv, WorkerInv, LocalInv
  <2>8. QED
    BY <2>4, <2>5, <2>6, <2>7
<1> QED
  BY <1>1, <1>2, <1>3, <1>4 DEF DropStep

LEMMA ExpiryKeepsTypeInv ==
  ASSUME TypeInv,
         \/ \E w \in WorkflowIds : ExpireWorkflow(w)
         \/ \E k \in Keys : ExpireSession(k)
  PROVE  TypeInv'
<1> USE DEF TypeInv, tables, sqs, slack
<1>1. UNCHANGED <<created, pending, event, queue, dlq, message, modal, issues,
                  worker, drop>>
  BY DEF ExpireWorkflow, ExpireSession
<1>2. /\ wfTable' \in [WorkflowIds -> Instance \union {None}]
      /\ \A w \in WorkflowIds : wfTable'[w] \in {wfTable[w], None}
      /\ session' \in [Keys -> WorkflowIds \union {None}]
      /\ budget' \in [Faults -> Nat]
  BY SpendType DEF ExpireWorkflow, ExpireSession, SessionClear, Faults, TypeOK
<1>3. TypeOK'
  BY <1>1, <1>2 DEF TypeOK
<1>4. MessageInv'
  BY <1>1, <1>2 DEF MessageInv, HoldsPosted, Posted
<1>5. EventInv' /\ WorkerInv' /\ DropInv'
  BY <1>1 DEF EventInv, WorkerInv, LocalInv, DropInv
<1> QED
  BY <1>3, <1>4, <1>5

-----------------------------------------------------------------------------
LEMMA InitTypeInv == Init => TypeInv
<1> SUFFICES ASSUME Init PROVE TypeInv
  OBVIOUS
<1>1. Idle \in WorkerState
  BY BoundsAssumption DEF Idle, WorkerState, WorkerPc, MaybeEvent, Receives
<1>2. NotInvoked \in DropState
  BY DEF NotInvoked, DropState
<1>3. TypeOK
  BY <1>1, <1>2, BoundsAssumption DEF Init, TypeOK
<1>4. EventInv
  BY DEF Init, EventInv
<1>5. WorkerInv /\ DropInv /\ MessageInv
  BY
  DEF Init, WorkerInv, LocalInv, DropInv, MessageInv, HoldsPosted,
      WithInstance, Idle,
     NotInvoked
<1> QED
  BY <1>3, <1>4, <1>5 DEF TypeInv

LEMMA StutterKeepsTypeInv ==
  ASSUME TypeInv, UNCHANGED vars
  PROVE  TypeInv'
  BY DEF TypeInv, TypeOK, EventInv, WorkerInv, LocalInv, DropInv,
     MessageInv, HoldsPosted,
     Posted, vars, tables, sqs, slack

LEMMA NextKeepsTypeInv == TypeInv /\ [Next]_vars => TypeInv'
<1> SUFFICES ASSUME TypeInv, [Next]_vars PROVE TypeInv'
  OBVIOUS
<1>1. CASE Next
  BY <1>1, UserKeepsTypeInv, ResendKeepsTypeInv, WorkerKeepsTypeInv,
     FailureKeepsTypeInv, DropKeepsTypeInv, ExpiryKeepsTypeInv DEF Next
<1>2. CASE UNCHANGED vars
  BY <1>2, StutterKeepsTypeInv
<1> QED
  BY <1>1, <1>2

LEMMA TypeInvHolds == Spec => []TypeInv
  BY InitTypeInv, NextKeepsTypeInv, PTL DEF Spec

(***************************************************************************)
(* The state always has its type, along TypeInv: every message on the      *)
(* queue has a body that names a key or a workflow, a worker past load has *)
(* a workflow in its hands, and a stored message_ts is a posted message,   *)
(* so no handler reads a record that is not there.                         *)
(***************************************************************************)
THEOREM TypeCorrect == Spec => []TypeOK
<1>1. TypeInv => TypeOK
  BY DEF TypeInv
<1> QED
  BY <1>1, TypeInvHolds, PTL
=============================================================================
