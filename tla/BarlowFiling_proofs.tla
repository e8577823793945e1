------------------------- MODULE BarlowFiling_proofs -------------------------
(***************************************************************************)
(* What the system files, for every number of users, workflows, events,    *)
(* workers and drops, and every budget of crashes, exceptions, duplicates  *)
(* and expiries: an event is processed by one worker and files at most one *)
(* issue; and the system implements IssueFiling, so that an issue is filed *)
(* for an acceptance of a proposed draft of its workflow.                  *)
(***************************************************************************)
EXTENDS BarlowTypes_proofs

(***************************************************************************)
(* The inductive strengthening.  try_acquire lets one worker in per event, *)
(* for good: PROCESSING outlives the worker.  Within the one invocation,   *)
(* nothing leads from the POST back to the loop.                           *)
(***************************************************************************)
AfterPost == {"relate", "notify", "saveEnd", "clearSession", "markDone"}

OnceInv ==
  /\ \A p \in Workers : InTry(p) => pending[Ev(p)] = "PROCESSING"
  /\ \A p, q \in Workers : InTry(p) /\ InTry(q) /\ Ev(p) = Ev(q) => p = q
  /\ \A i \in 1 .. Len(issues) : pending[issues[i].ev] # "absent"
  /\ \A p \in Workers, i \in 1 .. Len(issues) :
       InTry(p) /\ issues[i].ev = Ev(p) => worker[p].pc \in AfterPost
  /\ OneIssuePerEvent

-----------------------------------------------------------------------------
(* What a step of worker p may do, as far as OnceInv can tell.             *)

SameIssues ==
  /\ Len(issues)' = Len(issues)
  /\ \A i \in 1 .. Len(issues) : issues'[i].ev = issues[i].ev

Leaves(p) ==
  /\ ~ InTry(p)'
  /\ \/ UNCHANGED pending
     \/ InTry(p) /\ PendingDone(Ev(p))
  /\ SameIssues

Enters(p) ==
  /\ ~ InTry(p) /\ InTry(p)'
  /\ Ev(p) \in Events /\ Ev(p)' = Ev(p)
  /\ TryAcquire(Ev(p))
  /\ SameIssues

Runs(p) ==
  /\ InTry(p) /\ InTry(p)'
  /\ Ev(p) \in Events /\ Ev(p)' = Ev(p)
  /\ worker[p].pc \in AfterPost => worker'[p].pc \in AfterPost
  /\ UNCHANGED pending
  /\ SameIssues

Posts(p) ==
  /\ InTry(p) /\ InTry(p)'
  /\ Ev(p) \in Events /\ Ev(p)' = Ev(p)
  /\ worker[p].pc \notin AfterPost /\ worker'[p].pc \in AfterPost
  /\ UNCHANGED pending
  /\ Len(issues)' = Len(issues) + 1
  /\ \A i \in 1 .. Len(issues) : issues'[i] = issues[i]
  /\ issues'[Len(issues) + 1].ev = Ev(p)

Moves(p) == Leaves(p) \/ Enters(p) \/ Runs(p) \/ Posts(p)

LEMMA WorkerMoves ==
  ASSUME TypeInv, NEW p \in Workers, WorkerStep(p)
  PROVE  Others(p) /\ Moves(p)
<1> USE DEF tables, sqs, slack, At, Ev, Inst
<1>0. /\ worker[p] \in WorkerState /\ LocalInv(p) /\ worker[p].pc \in WorkerPc
      /\ worker \in [Workers -> WorkerState] /\ issues \in Seq(Issue)
      /\ Len(issues) \in Nat
  BY DEF TypeInv, TypeOK, WorkerInv, WorkerState
<1>1. ASSUME NEW d \in Events, NEW r \in Receives, Receive(p, d, r)
      PROVE  Others(p) /\ Leaves(p)
  BY <1>0, <1>1 DEF Receive, Leaves, SameIssues, InTry, Others, Idle
<1>2. CASE Acquire(p)
  <2>1. Others(p) /\ worker'[p].pc \in {"checkSession", "load"}
        /\ worker'[p].ev = worker[p].ev
    BY <1>0, <1>2, GotoType DEF Acquire, WorkerPc
  <2>2. Enters(p)
    BY <1>0, <1>2, <2>1 DEF Acquire, Enters, SameIssues, InTry, LocalInv
  <2>3. QED
    BY <2>1, <2>2 DEF Moves
<1>3. CASE SkipDuplicate(p) \/ MarkDone(p) \/ RaiseNotReady(p)
  <2>1. Finish(p) /\ SameIssues
    BY <1>3 DEF SkipDuplicate, MarkDone, RaiseNotReady, SameIssues
  <2>2. Others(p) /\ worker'[p].pc = "idle"
    BY <1>0, <2>1, FinishType
  <2>3. Leaves(p)
    BY <1>3, <2>1, <2>2
    DEF SkipDuplicate, MarkDone, RaiseNotReady, Leaves, InTry
  <2>4. QED
    BY <2>2, <2>3 DEF Moves
<1>4. CASE \/ RefuseStart(p) \/ AllowStart(p) \/ SetSession(p)
           \/ IgnoreResume(p) \/ SaveResumed(p) \/ SaveWaiting(p)
           \/ NotifyEnd(p) \/ SaveEnd(p) \/ ClearSession(p)
  <2>1. PICK pc \in WorkerPc \ {"idle", "received"} :
          /\ Goto(p, pc)
          /\ worker[p].pc \in AfterPost => pc \in AfterPost
    BY <1>4
    DEF RefuseStart, AllowStart, SetSession, IgnoreResume, SaveResumed,
        SaveWaiting, NotifyEnd, SaveEnd, ClearSession, WorkerPc, AfterPost
  <2>2. InTry(p) /\ UNCHANGED pending /\ issues' = issues
    BY <1>4
    DEF RefuseStart, AllowStart, SetSession, IgnoreResume, SaveResumed,
        SaveWaiting, NotifyEnd, SaveEnd, ClearSession, InTry
  <2>3. /\ Others(p) /\ worker'[p].pc = pc /\ worker'[p].ev = worker[p].ev
    BY <1>0, <2>1, GotoType
  <2>4. Runs(p)
    BY <1>0, <2>1, <2>2, <2>3 DEF Runs, SameIssues, InTry, LocalInv
  <2>5. QED
    BY <2>3, <2>4 DEF Moves
<1>5. CASE \/ CreateInstance(p) \/ LoadInstance(p) \/ FailUnknownStep(p)
           \/ ContinueStep(p) \/ PostWaitMessage(p) \/ RejectEnd(p)
           \/ SetRelation(p)
  <2>1. \E inst : \E pc \in WorkerPc \ {"idle", "received"} :
          /\ GotoWith(p, pc, inst)
          /\ worker[p].pc \in AfterPost => pc \in AfterPost
    BY <1>5
    DEF CreateInstance, LoadInstance, FailUnknownStep, ContinueStep,
        PostWaitMessage, RejectEnd, SetRelation, AtStep, WorkerPc, AfterPost
  <2>2. InTry(p) /\ UNCHANGED pending
    BY <1>5
    DEF CreateInstance, LoadInstance, FailUnknownStep, ContinueStep,
        PostWaitMessage, RejectEnd, SetRelation, AtStep, InTry
  <2>3. SameIssues
    <3>1. CASE SetRelation(p)
      <4>1. worker[p].issue \in 1 .. Len(issues)
        BY <1>0, <3>1 DEF SetRelation, LocalInv
      <4>2. issues[worker[p].issue] \in Issue
        BY <1>0, <4>1
      <4>3. QED
        BY <1>0, <3>1, <4>1, <4>2 DEF SetRelation, SameIssues, Issue
    <3>2. CASE ~ SetRelation(p)
      BY <1>5, <3>2
      DEF CreateInstance, LoadInstance, FailUnknownStep, ContinueStep,
          PostWaitMessage, RejectEnd, SameIssues
    <3>3. QED
      BY <3>1, <3>2
  <2>4. /\ Others(p) /\ worker'[p].ev = worker[p].ev /\ InTry(p)'
        /\ worker[p].pc \in AfterPost => worker'[p].pc \in AfterPost
    BY <1>0, <2>1 DEF GotoWith, Others, InTry, WorkerState
  <2>5. Runs(p)
    BY <1>0, <2>2, <2>3, <2>4 DEF Runs, InTry, LocalInv
  <2>6. QED
    BY <2>4, <2>5 DEF Moves
<1>6. CASE CreateIssue(p)
  <2> DEFINE new == [ev |-> Ev(p), wf |-> Inst(p).id, draft |-> Inst(p).draft,
                     relation |-> "none"]
  <2>1. /\ issues' = Append(issues, new)
        /\ UNCHANGED pending
        /\ worker[p].pc = "run"
    BY <1>6 DEF CreateIssue, AtStep
  <2>2. new.ev = Ev(p)
    OBVIOUS
  <2> HIDE DEF new
  <2>3. /\ Len(issues)' = Len(issues) + 1
        /\ \A i \in 1 .. Len(issues) : issues'[i] = issues[i]
        /\ issues'[Len(issues) + 1].ev = Ev(p)
    BY <1>0, <2>1, <2>2
  <2>4. /\ Others(p) /\ worker'[p].ev = worker[p].ev
        /\ worker'[p].pc \in {"notify", "relate"}
    BY <1>0, <1>6 DEF CreateIssue, Others, WorkerState
  <2>5. Posts(p)
    BY <1>0, <2>1, <2>3, <2>4 DEF Posts, AfterPost, InTry, LocalInv
  <2>6. QED
    BY <2>4, <2>5 DEF Moves
<1> QED
  BY <1>1, <1>2, <1>3, <1>4, <1>5, <1>6
  DEF WorkerStep, Start, Resume, Execute, Moves

LEMMA FailureLeaves ==
  ASSUME TypeInv, NEW p \in Workers, Raise(p) \/ Crash(p)
  PROVE  Others(p) /\ Leaves(p)
<1>1. Finish(p) /\ UNCHANGED <<pending, issues>>
  BY DEF Raise, Crash, tables
<1>2. Others(p) /\ worker'[p].pc = "idle"
  BY <1>1, FinishType DEF TypeInv, TypeOK
<1> QED
  BY <1>1, <1>2 DEF Leaves, InTry, SameIssues

-----------------------------------------------------------------------------
LEMMA MovesKeepOnceInv ==
  ASSUME TypeInv, TypeInv', OnceInv, NEW p \in Workers, Others(p), Moves(p)
  PROVE  OnceInv'
<1> USE DEF OnceInv, OneIssuePerEvent, SameIssues
<1>0. /\ Len(issues) \in Nat
      /\ \A i \in 1 .. Len(issues) : issues[i].ev \in Events
      /\ pending \in [Events -> {"absent", "PROCESSING", "DONE"}]
      /\ \A q \in Workers : InTry(q) => Ev(q) \in Events
      /\ \A q \in Workers : q # p => (InTry(q)' <=> InTry(q)) /\ Ev(q)' = Ev(q)
  <2>1. /\ Len(issues) \in Nat
        /\ \A i \in 1 .. Len(issues) : issues[i] \in Issue
        /\ pending \in [Events -> {"absent", "PROCESSING", "DONE"}]
    BY DEF TypeInv, TypeOK
  <2>2. \A q \in Workers : InTry(q) => Ev(q) \in Events
    BY DEF TypeInv, WorkerInv, LocalInv, InTry, Ev
  <2>3. \A q \in Workers : q # p => (InTry(q)' <=> InTry(q)) /\ Ev(q)' = Ev(q)
    BY DEF InTry, Ev, Others
  <2>4. QED
    BY <2>1, <2>2, <2>3 DEF Issue
<1>1. CASE Leaves(p)
  BY <1>0, <1>1 DEF Leaves, PendingDone, Others
<1>2. CASE Enters(p)
  BY <1>0, <1>2 DEF Enters, TryAcquire, Others
<1>3. CASE Runs(p)
  BY <1>0, <1>3 DEF Runs, Others
<1>4. CASE Posts(p)
  BY <1>0, <1>4 DEF Posts, Others
<1> QED
  BY <1>1, <1>2, <1>3, <1>4 DEF Moves

LEMMA NextKeepsOnceInv ==
  TypeInv /\ TypeInv' /\ OnceInv /\ [Next]_vars => OnceInv'
<1> SUFFICES ASSUME TypeInv, TypeInv', OnceInv, [Next]_vars PROVE OnceInv'
  OBVIOUS
<1>1. ASSUME NEW p \in Workers, WorkerStep(p) \/ Raise(p) \/ Crash(p)
      PROVE  OnceInv'
  BY <1>1, WorkerMoves, FailureLeaves, MovesKeepOnceInv DEF Moves
<1>2. CASE UNCHANGED <<worker, pending, issues>>
  BY <1>2 DEF OnceInv, InTry, Ev, OneIssuePerEvent
<1>3. CASE User \/ \E d \in Events : Resend(d)
  BY <1>2, <1>3
  DEF User, Press, SubmitRequest, PressAccept, PressDecision, SubmitReject,
      PressReject, Resend, tables
<1>4. CASE \E a \in Invocations : Drop(a) \/ DropStep(a) \/ DropCrash(a)
  BY <1>2, <1>4
  DEF Drop, DropCommand, DropButton, DropStep, DropLoad, DropLoadFails, DropSave,
      DropClear, DropCrash, tables
<1>5. CASE \/ \E w \in WorkflowIds : ExpireWorkflow(w)
           \/ \E k \in Keys : ExpireSession(k)
  BY <1>2, <1>5 DEF ExpireWorkflow, ExpireSession
<1>6. CASE UNCHANGED vars
  BY <1>2, <1>6 DEF vars, tables
<1> QED
  BY <1>1, <1>3, <1>4, <1>5, <1>6 DEF Next

LEMMA InitOnceInv == Init => OnceInv
  BY DEF Init, OnceInv, InTry, Ev, OneIssuePerEvent, Idle

LEMMA OnceInvHolds == Spec => []OnceInv
  BY InitOnceInv, NextKeepsOnceInv, TypeInvHolds, PTL DEF Spec

-----------------------------------------------------------------------------
(***************************************************************************)
(* Whatever is delivered twice, retried or returned to the queue, no two   *)
(* workers are past try_acquire on the same event, and none is once the    *)
(* event is DONE.                                                          *)
(***************************************************************************)
THEOREM OneProcessor == Spec => []ProcessedByOne
<1>1. OnceInv => ProcessedByOne
  BY DEF OnceInv, ProcessedByOne, Holds
<1> QED
  BY <1>1, OnceInvHolds, PTL

(***************************************************************************)
(* One press of accept files at most one issue, although a worker may die  *)
(* or raise after the POST and the event be delivered again.               *)
(***************************************************************************)
THEOREM AtMostOneIssue == Spec => []OneIssuePerEvent
<1>1. OnceInv => OneIssuePerEvent
  BY DEF OnceInv
<1> QED
  BY <1>1, OnceInvHolds, PTL

-----------------------------------------------------------------------------
(* Nothing is lost before try_acquire.                                     *)

(***************************************************************************)
(* UnacquiredIsKept is inductive by itself: a step that takes an event     *)
(* from one of the three places puts it in the next or acquires it.        *)
(***************************************************************************)
Somewhere(d) == d \in dlq \/ \E r \in Receives : queue[d][r] > 0

(* a step of worker p, who may let go of an event it has only received *)
LEMMA KeptByWorker ==
  ASSUME UnacquiredIsKept, NEW p \in Workers, Others(p), UNCHANGED event,
         NEW e, Ev(p) = e,
         \A d \in Events : Somewhere(d) => Somewhere(d)',
         \A d \in Events : pending'[d] = "absent" => pending[d] = "absent",
         At(p, "received") =>
           pending'[e] # "absent" \/ Somewhere(e)'
  PROVE  UnacquiredIsKept'
<1> SUFFICES ASSUME NEW d \in Events,
                    event'[d] # None, pending'[d] = "absent",
                    ~ Somewhere(d)'
             PROVE  \E q \in Workers : At(q, "received")' /\ Ev(q)' = d
  BY DEF UnacquiredIsKept, Somewhere
<1>1. PICK q \in Workers : At(q, "received") /\ Ev(q) = d
  BY DEF UnacquiredIsKept, Somewhere
<1>2. worker'[q] = worker[q]
  <2>1. q # p
    BY <1>1
  <2>2. QED
    BY <2>1 DEF Others
<1> QED
  BY <1>1, <1>2 DEF At, Ev

LEMMA WorkerKeepsUnacquired ==
  ASSUME TypeInv, UnacquiredIsKept, NEW p \in Workers, WorkerStep(p)
  PROVE  UnacquiredIsKept'
<1> USE DEF tables, sqs, slack
<1>0. /\ Others(p) /\ Moves(p)
      /\ pending \in [Events -> {"absent", "PROCESSING", "DONE"}]
      /\ queue \in [Events -> [Receives -> Nat]]
      /\ worker \in [Workers -> WorkerState]
  BY WorkerMoves DEF TypeInv, TypeOK
<1>1. \A d \in Events : pending'[d] = "absent" => pending[d] = "absent"
  BY <1>0
  DEF Moves, Leaves, Enters, Runs, Posts, PendingDone, TryAcquire
<1>2. ASSUME NEW d \in Events, NEW r \in Receives, Receive(p, d, r)
      PROVE  UnacquiredIsKept'
  <2>1. /\ UNCHANGED <<pending, event, dlq>> /\ At(p, "idle")
        /\ At(p, "received")' /\ Ev(p)' = d
        /\ \A c \in Events : c # d => queue'[c] = queue[c]
    BY <1>0, <1>2 DEF Receive, At, Ev, Idle
  <2>2. \A q \in Workers :
          At(q, "received") => At(q, "received")' /\ Ev(q)' = Ev(q)
    BY <1>0, <2>1 DEF At, Ev, Others
  <2>3. QED
    BY <2>1, <2>2 DEF UnacquiredIsKept
<1>3. CASE Acquire(p) \/ SkipDuplicate(p)
  <2>1. /\ UNCHANGED <<event, queue, dlq>>
        /\ Ev(p) \in Events
    BY <1>3 DEF Acquire, SkipDuplicate, TypeInv, WorkerInv, LocalInv, At, Ev
  <2>2. pending'[Ev(p)] # "absent"
    BY <1>0, <1>3, <2>1 DEF Acquire, SkipDuplicate, TryAcquire
  <2>3. \A c \in Events : Somewhere(c) => Somewhere(c)'
    BY <2>1 DEF Somewhere
  <2>4. QED
    BY <1>0, <1>1, <2>1, <2>2, <2>3, KeptByWorker
<1>4. CASE MarkDone(p) \/ Start(p) \/ Resume(p) \/ Execute(p)
  <2>1. /\ UNCHANGED <<event, queue, dlq>>
        /\ ~ At(p, "received")
    BY <1>4
    DEF MarkDone, Start, Resume, Execute, At, AtStep,
        RefuseStart, AllowStart, CreateInstance, SetSession, IgnoreResume,
        LoadInstance, SaveResumed, FailUnknownStep, ContinueStep,
        RaiseNotReady, PostWaitMessage, SaveWaiting, RejectEnd, CreateIssue,
        SetRelation, NotifyEnd, SaveEnd, ClearSession
  <2>2. \A c \in Events : Somewhere(c) => Somewhere(c)'
    BY <2>1 DEF Somewhere
  <2>3. QED
    BY <1>0, <1>1, <2>1, <2>2, KeptByWorker
<1> QED
  BY <1>2, <1>3, <1>4 DEF WorkerStep

LEMMA FailureKeepsUnacquired ==
  ASSUME TypeInv, UnacquiredIsKept, NEW p \in Workers, Raise(p) \/ Crash(p)
  PROVE  UnacquiredIsKept'
<1> USE DEF tables, sqs
<1>0. /\ Others(p) /\ UNCHANGED <<event, pending>>
      /\ queue \in [Events -> [Receives -> Nat]]
      /\ worker[p] \in WorkerState
  BY FailureLeaves DEF Raise, Crash, TypeInv, TypeOK
<1>1. CASE Raise(p)
  <2>1. UNCHANGED <<queue, dlq>> /\ ~ At(p, "received")
    BY <1>1 DEF Raise, InTry, At
  <2>2. \A c \in Events : Somewhere(c) => Somewhere(c)'
    BY <2>1 DEF Somewhere
  <2>3. QED
    BY <1>0, <2>1, <2>2, KeptByWorker
<1>2. CASE Crash(p)
  <2>1. PICK e \in Events, r \in Nat : ReturnMessage(e, r) /\ Ev(p) = e
    BY <1>0, <1>2, BoundsAssumption
    DEF Crash, TypeInv, WorkerInv, LocalInv, At, Ev, WorkerState, Receives
  <2>2. /\ Somewhere(e)'
        /\ \A c \in Events : Somewhere(c) => Somewhere(c)'
    <3>1. CASE r + 1 \in Receives
      <4>1. /\ queue' = [queue EXCEPT ![e][r + 1] =
                                        queue[e][r + 1] + 1]
            /\ dlq' = dlq
        BY <2>1, <3>1 DEF ReturnMessage
      <4>2. \A n \in Receives : queue[e][n] \in Nat
        BY <1>0, <2>1
      <4>3. /\ queue'[e][r + 1] = queue[e][r + 1] + 1
            /\ \A n \in Receives :
                 n # r + 1 => queue'[e][n] = queue[e][n]
            /\ \A c \in Events : c # e => queue'[c] = queue[c]
        BY <1>0, <2>1, <3>1, <4>1
      <4>4. queue'[e][r + 1] > 0
        BY <3>1, <4>2, <4>3
      <4>5. Somewhere(e)'
        BY <3>1, <4>4 DEF Somewhere
      <4>6. ASSUME NEW c \in Events, Somewhere(c), c # e
            PROVE  Somewhere(c)'
        BY <4>1, <4>3, <4>6 DEF Somewhere
      <4>7. QED
        BY <4>5, <4>6
    <3>2. CASE r + 1 \notin Receives
      BY <2>1, <3>2 DEF ReturnMessage, Somewhere
    <3>3. QED
      BY <3>1, <3>2
  <2>3. QED
    BY <1>0, <2>1, <2>2, KeptByWorker
<1> QED
  BY <1>1, <1>2

LEMMA UserKeepsUnacquired ==
  ASSUME TypeInv, UnacquiredIsKept, User
  PROVE  UnacquiredIsKept'
<1> USE DEF tables, slack
<1>1. ASSUME NEW d \in Events, NEW e, Send(d, e), UNCHANGED <<pending, worker>>
      PROVE  UnacquiredIsKept'
  <2>1. /\ 0 \in Receives /\ queue \in [Events -> [Receives -> Nat]]
    BY BoundsAssumption DEF Receives, TypeInv, TypeOK
  <2>2. /\ queue' = [queue EXCEPT ![d][0] = queue[d][0] + 1]
        /\ dlq' = dlq /\ event' = [event EXCEPT ![d] = e]
    BY <1>1 DEF Send
  <2>3. queue'[d][0] > 0
    <3>1. queue[d][0] \in Nat
      BY <2>1
    <3>2. QED
      BY <2>1, <2>2, <3>1
  <2>4. \A c \in Events : c # d => queue'[c] = queue[c] /\ event'[c] = event[c]
    BY <2>1, <2>2 DEF TypeInv, TypeOK
  <2>5. QED
    BY <1>1, <2>1, <2>2, <2>3, <2>4 DEF UnacquiredIsKept, At, Ev
<1>2. CASE \E d \in Events : Press(d)
  BY <1>1, <1>2
  DEF Press, SubmitRequest, PressAccept, PressDecision, SubmitReject
<1>3. CASE \E m \in Events : PressReject(m)
  BY <1>3 DEF PressReject, UnacquiredIsKept, At, Ev, sqs
<1> QED
  BY <1>2, <1>3 DEF User

LEMMA NextKeepsUnacquired ==
  TypeInv /\ UnacquiredIsKept /\ [Next]_vars => UnacquiredIsKept'
<1> SUFFICES ASSUME TypeInv, UnacquiredIsKept, [Next]_vars
             PROVE  UnacquiredIsKept'
  OBVIOUS
<1>1. CASE User
  BY <1>1, UserKeepsUnacquired
<1>2. ASSUME NEW p \in Workers, WorkerStep(p) \/ Raise(p) \/ Crash(p)
      PROVE  UnacquiredIsKept'
  BY <1>2, WorkerKeepsUnacquired, FailureKeepsUnacquired
<1>3. ASSUME NEW d \in Events, Resend(d) PROVE UnacquiredIsKept'
  <2>1. /\ 0 \in Receives /\ queue \in [Events -> [Receives -> Nat]]
    BY BoundsAssumption DEF Receives, TypeInv, TypeOK
  <2>2. queue' = [queue EXCEPT ![d][0] = queue[d][0] + 1]
    BY <1>3 DEF Resend
  <2>3. queue'[d][0] > 0
    <3>1. queue[d][0] \in Nat
      BY <2>1
    <3>2. QED
      BY <2>1, <2>2, <3>1
  <2>4. \A c \in Events : c # d => queue'[c] = queue[c]
    BY <2>1, <2>2
  <2>5. UNCHANGED <<event, pending, dlq, worker>>
    BY <1>3 DEF Resend, tables
  <2>6. QED
    BY <2>1, <2>3, <2>4, <2>5 DEF UnacquiredIsKept, At, Ev
<1>4. CASE UNCHANGED <<event, pending, queue, dlq, worker>>
  BY <1>4 DEF UnacquiredIsKept, At, Ev
<1>5. CASE \E a \in Invocations : Drop(a) \/ DropStep(a) \/ DropCrash(a)
  BY <1>4, <1>5
  DEF Drop, DropCommand, DropButton, DropStep, DropLoad, DropLoadFails,
      DropSave, DropClear, DropCrash, tables, sqs
<1>6. CASE \/ \E w \in WorkflowIds : ExpireWorkflow(w)
           \/ \E k \in Keys : ExpireSession(k)
  BY <1>4, <1>6 DEF ExpireWorkflow, ExpireSession, sqs
<1>7. CASE UNCHANGED vars
  BY <1>4, <1>7 DEF vars, tables, sqs
<1> QED
  BY <1>1, <1>2, <1>3, <1>5, <1>6, <1>7 DEF Next

(***************************************************************************)
(* Until a worker has acquired it, an event is on the queue, with a worker *)
(* that has received it, or in the dead letter queue, however many workers *)
(* die and however often it is redelivered: the only way to lose an event  *)
(* is to acquire it (step_worker_handler, the redrive policy).             *)
(***************************************************************************)
THEOREM UnacquiredStays == Spec => []UnacquiredIsKept
<1>1. Init => UnacquiredIsKept
  BY DEF Init, UnacquiredIsKept
<1> QED
  BY <1>1, NextKeepsUnacquired, TypeInvHolds, PTL DEF Spec

-----------------------------------------------------------------------------
(* Every await takes an invocation nearer to its end.                      *)

LEMMA TurnsDecrease ==
  /\ \A s \in Steps : TurnsLeft[s] \in 4 .. 6
  /\ \A s \in ContinueSteps : /\ OnContinue[s] \in Steps
                              /\ TurnsLeft[OnContinue[s]] < TurnsLeft[s]
  /\ TurnsLeft["create_github_issue"] = 6
  BY DEF TurnsLeft, OnContinue, Steps, ContinueSteps, WaitSteps, StopSteps

(* AwaitsLeft of p before and after a step, as numbers *)
Left(pc, inst) ==
  IF pc = "run" THEN TurnsLeft[inst.step] ELSE AwaitsAt[pc]

Shortens(p) ==
  Left(worker'[p].pc, worker'[p].inst) < Left(worker[p].pc, worker[p].inst)

LEMMA WorkerShortens ==
  ASSUME TypeInv, NEW p \in Workers,
         WorkerStep(p) \/ Raise(p) \/ Crash(p), ~ At(p, "idle")
  PROVE  Shortens(p)
<1> USE DEF At, Ev, Inst
<1>0. /\ worker[p] \in WorkerState /\ LocalInv(p) /\ worker[p].pc \in WorkerPc
      /\ worker \in [Workers -> WorkerState]
  BY DEF TypeInv, TypeOK, WorkerInv, WorkerState
<1>1. /\ AwaitsAt["idle"] = 0
      /\ \A pc \in WorkerPc \ {"run", "idle"} : AwaitsAt[pc] \in 1 .. 10
  BY DEF AwaitsAt, WorkerPc
<1>2. /\ worker[p].pc = "run" => worker[p].inst.step \in Steps
      /\ worker[p].pc \in WithInstance => worker[p].inst \in Instance
  BY <1>0 DEF LocalInv, WithInstance, Instance
<1>3. Left(worker[p].pc, worker[p].inst) \in 1 .. 10
  BY <1>0, <1>1, <1>2, TurnsDecrease DEF Left
<1>4. ASSUME Finish(p) PROVE Shortens(p)
  BY <1>0, <1>1, <1>3, <1>4, FinishType DEF Shortens, Left
<1>5. CASE \/ SkipDuplicate(p) \/ MarkDone(p) \/ RaiseNotReady(p)
           \/ Raise(p) \/ Crash(p)
  BY <1>4, <1>5 DEF SkipDuplicate, MarkDone, RaiseNotReady, Raise, Crash
<1>6. CASE Acquire(p)
  <2>1. PICK pc \in {"checkSession", "load"} : Goto(p, pc)
    BY <1>6 DEF Acquire
  <2>2. worker'[p].pc = pc
    BY <1>0, <2>1, GotoType DEF WorkerPc
  <2>3. QED
    BY <1>6, <2>2 DEF Acquire, Shortens, Left, AwaitsAt
<1>7. CASE RefuseStart(p) \/ AllowStart(p) \/ IgnoreResume(p)
  <2>1. PICK pc \in {"markDone", "create"} :
          /\ Goto(p, pc) /\ worker[p].pc \in {"checkSession", "load"}
          /\ pc = "create" => worker[p].pc = "checkSession"
    BY <1>7 DEF RefuseStart, AllowStart, IgnoreResume
  <2>2. worker'[p].pc = pc
    BY <1>0, <2>1, GotoType DEF WorkerPc
  <2>3. QED
    BY <2>1, <2>2 DEF Shortens, Left, AwaitsAt
<1>8. CASE SetSession(p) \/ SaveResumed(p)
  <2>1. Goto(p, "run") /\ worker[p].pc \in {"setSession", "saveResumed"}
    BY <1>8 DEF SetSession, SaveResumed
  <2>2. worker'[p].pc = "run" /\ worker'[p].inst = worker[p].inst
    BY <1>0, <2>1, GotoType DEF WorkerPc
  <2>3. TurnsLeft[worker[p].inst.step] \in 4 .. 6
    BY <1>2, <2>1, TurnsDecrease DEF WithInstance, Instance
  <2>4. QED
    BY <2>1, <2>2, <2>3 DEF Shortens, Left, AwaitsAt
<1>9. CASE \/ SaveWaiting(p) \/ NotifyEnd(p) \/ SaveEnd(p) \/ ClearSession(p)
  <2>1. \/ Goto(p, "markDone") /\ worker[p].pc \in {"saveWaiting",
                                                      "clearSession"}
        \/ Goto(p, "saveEnd") /\ worker[p].pc = "notify"
        \/ Goto(p, "clearSession") /\ worker[p].pc = "saveEnd"
    BY <1>9 DEF SaveWaiting, NotifyEnd, SaveEnd, ClearSession
  <2>2. \/ /\ worker'[p].pc = "markDone"
           /\ worker[p].pc \in {"saveWaiting", "clearSession"}
        \/ worker'[p].pc = "saveEnd" /\ worker[p].pc = "notify"
        \/ worker'[p].pc = "clearSession" /\ worker[p].pc = "saveEnd"
    BY <1>0, <2>1, GotoType DEF WorkerPc
  <2>3. QED
    BY <2>2 DEF Shortens, Left, AwaitsAt
<1>10. CASE CreateInstance(p) \/ LoadInstance(p) \/ SetRelation(p)
  <2>1. \E inst :
          \/ GotoWith(p, "setSession", inst) /\ worker[p].pc = "create"
          \/ GotoWith(p, "saveResumed", inst) /\ worker[p].pc = "load"
          \/ GotoWith(p, "notify", inst) /\ worker[p].pc = "relate"
    BY <1>10 DEF CreateInstance, LoadInstance, SetRelation
  <2>2. \/ worker'[p].pc = "setSession" /\ worker[p].pc = "create"
        \/ worker'[p].pc = "saveResumed" /\ worker[p].pc = "load"
        \/ worker'[p].pc = "notify" /\ worker[p].pc = "relate"
    BY <1>0, <2>1 DEF GotoWith, WorkerState
  <2>3. QED
    BY <2>2 DEF Shortens, Left, AwaitsAt
<1>11. CASE FailUnknownStep(p) \/ PostWaitMessage(p) \/ RejectEnd(p)
  <2>1. /\ worker[p].pc = "run"
        /\ \E inst :
             \/ GotoWith(p, "saveEnd", inst)
             \/ GotoWith(p, "saveWaiting", inst)
             \/ /\ GotoWith(p, "notify", inst)
                /\ worker[p].inst.step = "reject_end"
    BY <1>11 DEF FailUnknownStep, PostWaitMessage, RejectEnd, AtStep
  <2>2. \/ worker'[p].pc \in {"saveEnd", "saveWaiting"}
        \/ worker'[p].pc = "notify" /\ worker[p].inst.step = "reject_end"
    BY <1>0, <2>1 DEF GotoWith, WorkerState
  <2>3. /\ TurnsLeft[worker[p].inst.step] \in 4 .. 6
        /\ TurnsLeft["reject_end"] = 5
    BY <1>2, <2>1, TurnsDecrease
    DEF TurnsLeft, Steps, ContinueSteps, WaitSteps, StopSteps
  <2>4. QED
    BY <2>1, <2>2, <2>3 DEF Shortens, Left, AwaitsAt
<1>12. CASE ContinueStep(p)
  <2>1. PICK finding \in Findings :
          LET out == ApplyOutput(Inst(p).step, Inst(p), Ev(p), finding)
              i   == [out EXCEPT !.step = OnContinue[out.step]]
          IN  GotoWith(p, "run", i)
    BY <1>12 DEF ContinueStep
  <2> DEFINE out == ApplyOutput(Inst(p).step, Inst(p), Ev(p), finding)
             i   == [out EXCEPT !.step = OnContinue[out.step]]
  <2>2. /\ worker[p].pc = "run" /\ worker[p].inst \in Instance
        /\ worker[p].inst.step \in ContinueSteps
    BY <1>2, <1>12 DEF ContinueStep, AtStep, WithInstance
  <2>3. i.step = OnContinue[worker[p].inst.step]
    BY <2>2
    DEF ApplyOutput, FindRelevantBc, FindRelevantIssue, GenerateIssueDraft,
        RegenerateIssueDraft, ContinueSteps, Instance
  <2>4. GotoWith(p, "run", i)
    BY <2>1
  <2> HIDE DEF out, i
  <2>5. worker'[p].pc = "run" /\ worker'[p].inst = i
    BY <1>0, <2>4 DEF GotoWith, WorkerState
  <2>6. QED
    BY <2>2, <2>3, <2>5, TurnsDecrease DEF Shortens, Left
<1>13. CASE CreateIssue(p)
  <2>1. /\ worker[p].pc = "run" /\ worker[p].inst.step = "create_github_issue"
        /\ worker'[p].pc \in {"notify", "relate"}
    BY <1>0, <1>13 DEF CreateIssue, AtStep, WorkerState
  <2>2. QED
    BY <2>1, TurnsDecrease DEF Shortens, Left, AwaitsAt
<1>14. CASE \E d \in Events, r \in Receives : Receive(p, d, r)
  BY <1>14 DEF Receive
<1> QED
  BY <1>5, <1>6, <1>7, <1>8, <1>9, <1>10, <1>11, <1>12, <1>13, <1>14
  DEF WorkerStep, Start, Resume, Execute

(***************************************************************************)
(* No handler runs on for ever: from receiving a message to returning, a   *)
(* worker has at most ten awaits before it, and each leaves fewer, whatever*)
(* step a resume starts from and whatever others do to the records         *)
(* (_process, _execute_until_wait).                                        *)
(***************************************************************************)
THEOREM EveryInvocationEnds == Spec => InvocationsEnd
<1> DEFINE A == \A p \in Workers :
                  At(p, "idle") \/ worker'[p] = worker[p]
                    \/ AwaitsLeft(p)' < AwaitsLeft(p)
<1>1. TypeInv /\ [Next]_vars => [A]_vars
  <2> SUFFICES ASSUME TypeInv, Next, NEW p \in Workers, ~ At(p, "idle"),
                      worker'[p] # worker[p]
               PROVE  AwaitsLeft(p)' < AwaitsLeft(p)
    OBVIOUS
  <2>1. WorkerStep(p) \/ Raise(p) \/ Crash(p)
    <3>1. ASSUME NEW q \in Workers, WorkerStep(q) \/ Raise(q) \/ Crash(q)
          PROVE  q = p
      BY <3>1, WorkerMoves, FailureLeaves DEF Others
    <3>2. ~ UNCHANGED worker
      OBVIOUS
    <3>3. ~ User /\ ~ \E d \in Events : Resend(d)
      BY <3>2
      DEF User, Press, SubmitRequest, PressAccept, PressDecision,
          SubmitReject, PressReject, Resend
    <3>4. ~ \E a \in Invocations : Drop(a) \/ DropStep(a) \/ DropCrash(a)
      BY <3>2
      DEF Drop, DropCommand, DropButton, DropStep, DropLoad, DropLoadFails,
          DropSave, DropClear, DropCrash
    <3>5. /\ ~ \E w \in WorkflowIds : ExpireWorkflow(w)
          /\ ~ \E k \in Keys : ExpireSession(k)
      BY <3>2 DEF ExpireWorkflow, ExpireSession
    <3>6. QED
      BY <3>1, <3>3, <3>4, <3>5 DEF Next
  <2>2. Shortens(p)
    BY <2>1, WorkerShortens
  <2>3. QED
    BY <2>2 DEF Shortens, Left, AwaitsLeft, At, Inst
<1>2. []TypeInv /\ [][Next]_vars => [][A]_vars
  BY <1>1, PTL
<1> QED
  BY <1>2, TypeInvHolds DEF Spec, InvocationsEnd

-----------------------------------------------------------------------------
(* The system implements IssueFiling.                                      *)

(***************************************************************************)
(* The inductive strengthening, on top of TypeInv and OnceInv.             *)
(*  - The record under a key has that key, so that                         *)
(*  - a worker resumes the workflow its event names, and reaches           *)
(*    create_github_issue only with an accept event.                       *)
(*  - An event has a message only after it was acquired, and its worker    *)
(*    is then past the post: a message is never posted over another.       *)
(***************************************************************************)
IdInv == \A w \in WorkflowIds : wfTable[w] # None => wfTable[w].id = w

BeforeStep == {"setSession", "saveResumed", "run"}

ChainInv(p) ==
  worker[p].pc \in WithInstance =>
    /\ event[Ev(p)].type # "pipeline_start" => Inst(p).id = event[Ev(p)].wf
    /\ worker[p].pc \in BeforeStep /\ Inst(p).step = "create_github_issue"
         => event[Ev(p)].type = "accept"

AfterWait == {"saveWaiting", "markDone"}

MsgInv ==
  /\ \A d \in Events : message[d] # None => pending[d] # "absent"
  /\ \A p \in Workers :
       InTry(p) /\ message[Ev(p)] # None => worker[p].pc \in AfterWait

FilingInv == IdInv /\ (\A p \in Workers : ChainInv(p)) /\ MsgInv

FilingInvs == TypeInv /\ OnceInv /\ FilingInv

-----------------------------------------------------------------------------
(* A worker and the workflow its event names.                              *)

LEMMA SaveKeepsIdInv ==
  ASSUME TypeOK, IdInv, NEW inst \in Instance, Save(inst)
  PROVE  IdInv'
  BY SaveType DEF TypeOK, IdInv

LEMMA ChainFrame ==
  ASSUME WorkerInv, NEW p \in Workers, Others(p), EventsStay,
         \A q \in Workers : ChainInv(q), ChainInv(p)'
  PROVE  \A q \in Workers : ChainInv(q)'
<1> SUFFICES ASSUME NEW q \in Workers, q # p PROVE ChainInv(q)'
  OBVIOUS
<1>1. worker'[q] = worker[q] /\ LocalInv(q) /\ ChainInv(q)
  BY DEF Others, WorkerInv
<1>2. worker[q].pc \in WithInstance => event'[worker[q].ev] = event[worker[q].ev]
  BY <1>1 DEF LocalInv, WithInstance, EventsStay
<1> QED
  BY <1>1, <1>2 DEF ChainInv, Ev, Inst

LEMMA WorkerKeepsChain ==
  ASSUME TypeInv, FilingInv, NEW p \in Workers, WorkerStep(p)
  PROVE  IdInv' /\ ChainInv(p)'
<1> USE DEF tables, sqs, slack, At, Ev, Inst
<1>0. /\ worker[p] \in WorkerState /\ LocalInv(p) /\ ChainInv(p)
      /\ worker \in [Workers -> WorkerState]
      /\ TypeOK /\ IdInv
  BY DEF TypeInv, TypeOK, WorkerInv, FilingInv
<1>1. ASSUME NEW d \in Events, NEW r \in Receives, Receive(p, d, r)
      PROVE  IdInv' /\ ChainInv(p)'
  BY <1>0, <1>1 DEF Receive, IdInv, ChainInv, WithInstance, Idle
<1>2. CASE \/ SkipDuplicate(p) \/ MarkDone(p) \/ RaiseNotReady(p)
  <2>1. Finish(p) /\ wfTable' = wfTable
    BY <1>2 DEF SkipDuplicate, MarkDone, RaiseNotReady
  <2>2. worker'[p].pc = "idle"
    BY <1>0, <2>1, FinishType
  <2>3. QED
    BY <1>0, <2>1, <2>2 DEF IdInv, ChainInv, WithInstance
<1>3. CASE \/ Acquire(p) \/ RefuseStart(p) \/ AllowStart(p)
           \/ IgnoreResume(p) \/ ClearSession(p)
  <2>1. PICK pc \in WorkerPc \ WithInstance : Goto(p, pc)
    BY <1>3
    DEF Acquire, RefuseStart, AllowStart, IgnoreResume, ClearSession,
        WorkerPc, WithInstance
  <2>2. wfTable' = wfTable
    BY <1>3
    DEF Acquire, RefuseStart, AllowStart, IgnoreResume, ClearSession
  <2>3. worker'[p].pc = pc
    BY <1>0, <2>1, GotoType
  <2>4. QED
    BY <1>0, <2>1, <2>2, <2>3 DEF IdInv, ChainInv
<1>4. CASE CreateInstance(p)
  <2>1. PICK w \in WorkflowIds :
          /\ Save(NewInstance(w, event[Ev(p)]))
          /\ GotoWith(p, "setSession", NewInstance(w, event[Ev(p)]))
          /\ event' = event
    BY <1>4 DEF CreateInstance
  <2>2. /\ event[Ev(p)] \in Event /\ event[Ev(p)].key \in Keys
        /\ event[Ev(p)].type = "pipeline_start"
    BY <1>0, <1>4
    DEF CreateInstance, LocalInv, TypeInv, TypeOK, EventInv, EventOf
  <2>3. NewInstance(w, event[Ev(p)]) \in Instance
    BY <2>2, NewInstanceType
  <2>4. /\ worker'[p].pc = "setSession" /\ worker'[p].ev = worker[p].ev
        /\ worker'[p].inst.step = FIRST_STEP
    BY <1>0, <2>1, <2>3, GotoWithType DEF NewInstance, WorkerPc
  <2>5. QED
    BY <1>0, <2>1, <2>2, <2>3, <2>4, SaveKeepsIdInv DEF ChainInv, FIRST_STEP
<1>5. CASE SetSession(p) \/ SaveResumed(p)
  <2>1. Goto(p, "run") /\ event' = event /\ worker[p].pc \in BeforeStep
        /\ worker[p].pc \in WithInstance
    BY <1>5 DEF SetSession, SaveResumed, BeforeStep, WithInstance
  <2>2. /\ worker'[p].pc = "run" /\ worker'[p].ev = worker[p].ev
        /\ worker'[p].inst = worker[p].inst
    BY <1>0, <2>1, GotoType DEF WorkerPc
  <2>3. IdInv'
    <3>1. Inst(p) \in Instance
      BY <1>0, <2>1 DEF LocalInv
    <3>2. wfTable' = wfTable \/ Save(Inst(p))
      BY <1>5 DEF SetSession, SaveResumed
    <3>3. QED
      BY <1>0, <3>1, <3>2, SaveKeepsIdInv DEF IdInv
  <2>4. QED
    BY <1>0, <2>1, <2>2, <2>3 DEF ChainInv
<1>6. CASE LoadInstance(p)
  <2> DEFINE e == event[Ev(p)]
             i == Resumed(wfTable[e.wf], Ev(p), e)
  <2>1. /\ GotoWith(p, "saveResumed", i) /\ event' = event
        /\ wfTable' = wfTable
        /\ wfTable[e.wf] # None /\ e.type \in ResumeActions
    BY <1>6 DEF LoadInstance, Resumable, HasResume
  <2>2. Ev(p) \in Events /\ e \in Event /\ e.wf \in WorkflowIds
    BY <1>0, <1>6
    DEF LoadInstance, LocalInv, TypeInv, TypeOK, EventInv, EventOf
  <2>3. wfTable[e.wf] \in Instance /\ wfTable[e.wf].id = e.wf
    BY <1>0, <2>1, <2>2 DEF TypeOK, IdInv
  <2>4. i \in Instance /\ i.id = e.wf /\ i.step = RESUME_MAP[e.type]
    <3> DEFINE old == wfTable[e.wf]
    <3>1. old \in Instance /\ old.id = e.wf /\ i = Resumed(old, Ev(p), e)
      BY <2>3
    <3> HIDE DEF i, old
    <3>2. QED
      BY <2>1, <2>2, <3>1, ResumedType
  <2>5. i.step = "create_github_issue" => e.type = "accept"
    BY <2>1, <2>4, ResumeMapType
  <2> HIDE DEF i
  <2>6. /\ worker'[p].pc = "saveResumed" /\ worker'[p].inst = i
        /\ worker'[p].ev = worker[p].ev
    BY <1>0, <2>1, <2>4, GotoWithType DEF WorkerPc
  <2>7. QED
    BY <1>0, <2>1, <2>4, <2>5, <2>6 DEF IdInv, ChainInv
<1>7. CASE ContinueStep(p)
  <2>1. PICK finding \in Findings :
          LET out == ApplyOutput(Inst(p).step, Inst(p), Ev(p), finding)
              i   == [out EXCEPT !.step = OnContinue[out.step]]
          IN  Save(i) /\ GotoWith(p, "run", i)
    BY <1>7 DEF ContinueStep
  <2> DEFINE out == ApplyOutput(Inst(p).step, Inst(p), Ev(p), finding)
             i   == [out EXCEPT !.step = OnContinue[out.step]]
  <2>2. /\ Inst(p) \in Instance /\ Inst(p).step \in ContinueSteps
        /\ event' = event /\ worker[p].pc = "run" /\ Ev(p) \in Events
        /\ finding \in {"anchored", "unanchored"}
    BY <1>7, <1>0, InputsAssumption
    DEF ContinueStep, AtStep, LocalInv, WithInstance
  <2>3. i \in Instance /\ i.id = Inst(p).id /\ i.step # "create_github_issue"
    BY <2>2
    DEF ApplyOutput, FindRelevantBc, FindRelevantIssue, GenerateIssueDraft,
        RegenerateIssueDraft, Instance, OnContinue, Steps, ContinueSteps,
        WaitSteps, StopSteps, MaybeEvent
  <2>4. Save(i) /\ GotoWith(p, "run", i)
    BY <2>1
  <2> HIDE DEF i
  <2>5. /\ worker'[p].pc = "run" /\ worker'[p].inst = i
        /\ worker'[p].ev = worker[p].ev
    BY <1>0, <2>3, <2>4, GotoWithType DEF WorkerPc
  <2>6. QED
    BY <1>0, <2>2, <2>3, <2>4, <2>5, SaveKeepsIdInv
    DEF ChainInv, WithInstance
<1>8. CASE \/ FailUnknownStep(p) \/ PostWaitMessage(p) \/ RejectEnd(p)
           \/ SetRelation(p) \/ CreateIssue(p) \/ NotifyEnd(p)
  <2>1. /\ worker[p].pc \in WithInstance /\ event' = event
        /\ wfTable' = wfTable
    BY <1>8
    DEF FailUnknownStep, PostWaitMessage, RejectEnd, SetRelation,
        CreateIssue, NotifyEnd, AtStep, WithInstance
  <2>2. Inst(p) \in Instance
    BY <1>0, <2>1 DEF LocalInv
  <2>3. /\ worker'[p].pc \notin BeforeStep /\ worker'[p].ev = worker[p].ev
        /\ worker'[p].inst.id = Inst(p).id
    <3>1. CASE NotifyEnd(p)
      BY <1>0, <2>2, <3>1
      DEF NotifyEnd, Goto, BeforeStep, WorkerState
    <3>2. CASE CreateIssue(p)
      BY <1>0, <2>2, <3>2
      DEF CreateIssue, Filed, BeforeStep, WorkerState, Instance
    <3>3. CASE FailUnknownStep(p) \/ RejectEnd(p)
      BY <1>0, <2>2, <3>3
      DEF FailUnknownStep, RejectEnd, GotoWith, BeforeStep, WorkerState,
          Instance
    <3>4. CASE PostWaitMessage(p)
      BY <1>0, <2>2, <3>4
      DEF PostWaitMessage, GotoWith, BeforeStep, WorkerState, Instance
    <3>5. CASE SetRelation(p)
      BY <1>0, <2>2, <3>5
      DEF SetRelation, GotoWith, Filed, BeforeStep, WorkerState, Instance
    <3>6. QED
      BY <1>8, <3>1, <3>2, <3>3, <3>4, <3>5
  <2>4. QED
    BY <1>0, <2>1, <2>3 DEF IdInv, ChainInv
<1>9. CASE SaveWaiting(p) \/ SaveEnd(p)
  <2>1. PICK pc \in {"markDone", "clearSession"} : Goto(p, pc)
    BY <1>9 DEF SaveWaiting, SaveEnd
  <2>2. Inst(p) \in Instance /\ Save(Inst(p)) /\ event' = event
        /\ worker[p].pc \in WithInstance
    BY <1>0, <1>9 DEF SaveWaiting, SaveEnd, LocalInv, WithInstance
  <2>3. /\ worker'[p].pc = pc /\ worker'[p].ev = worker[p].ev
        /\ worker'[p].inst = worker[p].inst
    BY <1>0, <2>1, GotoType DEF WorkerPc
  <2>4. QED
    BY <1>0, <2>1, <2>2, <2>3, SaveKeepsIdInv DEF ChainInv, BeforeStep
<1> QED
  BY <1>1, <1>2, <1>3, <1>4, <1>5, <1>6, <1>7, <1>8, <1>9
  DEF WorkerStep, Start, Resume, Execute

-----------------------------------------------------------------------------
(* Messages.                                                               *)

SameMessages == \A d \in Events : message'[d] = None <=> message[d] = None

PostsMessage(p) ==
  /\ worker[p].pc = "run" /\ worker'[p].pc = "saveWaiting"
  /\ \A d \in Events \ {Ev(p)} : message'[d] = message[d]

LEMMA WorkerMessages ==
  ASSUME TypeInv, NEW p \in Workers, WorkerStep(p)
  PROVE  \/ PostsMessage(p)
         \/ /\ SameMessages
            /\ worker[p].pc \in AfterWait => worker'[p].pc \in AfterWait \/ ~ InTry(p)'
<1> USE DEF tables, sqs, slack, At, Ev, Inst
<1>0. /\ worker[p] \in WorkerState /\ LocalInv(p)
      /\ worker \in [Workers -> WorkerState]
      /\ message \in [Events -> Message \union {None}]
  BY DEF TypeInv, TypeOK, WorkerInv
<1>1. CASE PostWaitMessage(p)
  BY <1>0, <1>1
  DEF PostWaitMessage, AtStep, PostsMessage, GotoWith, WorkerState
<1>2. CASE NotifyEnd(p)
  <2>1. worker[p].pc = "notify" /\ Inst(p) \in Instance
    BY <1>0, <1>2 DEF NotifyEnd, LocalInv, WithInstance
  <2>2. Inst(p).messageTs # None =>
          Inst(p).messageTs \in Events /\ message[Inst(p).messageTs] \in Message
    BY <1>0, <2>1
    DEF TypeInv, MessageInv, HoldsPosted, Posted, WithInstance, Instance,
        MaybeEvent
  <2>3. Inst(p).messageTs # None =>
          [message[Inst(p).messageTs] EXCEPT !.live = FALSE] \in Message
    BY <2>2 DEF Message
  <2>4. SameMessages
    BY <1>0, <1>2, <2>2, <2>3, NoneIsNoRecord DEF NotifyEnd, SameMessages
  <2>5. QED
    BY <2>1, <2>4 DEF AfterWait
<1>3. CASE SaveWaiting(p) \/ MarkDone(p)
  <2>1. message' = message /\ (Goto(p, "markDone") \/ Finish(p))
    BY <1>3 DEF SaveWaiting, MarkDone
  <2>2. worker'[p].pc \in {"markDone", "idle"}
    BY <1>0, <2>1, GotoType, FinishType DEF WorkerPc
  <2>3. QED
    BY <2>1, <2>2 DEF SameMessages, AfterWait, InTry
<1>4. ASSUME ~ PostWaitMessage(p), ~ NotifyEnd(p), ~ SaveWaiting(p),
             ~ MarkDone(p)
      PROVE  message' = message /\ worker[p].pc \notin AfterWait
  <2>1. ASSUME NEW d \in Events, NEW r \in Receives, Receive(p, d, r)
        PROVE  message' = message /\ worker[p].pc \notin AfterWait
    BY <2>1 DEF Receive, AfterWait
  <2>2. CASE Acquire(p) \/ SkipDuplicate(p) \/ Start(p) \/ Resume(p)
    BY <2>2
    DEF Acquire, SkipDuplicate, Start, RefuseStart, AllowStart,
        CreateInstance, SetSession, Resume, IgnoreResume, LoadInstance,
        SaveResumed, AfterWait
  <2>3. CASE Execute(p)
    BY <1>4, <2>3
    DEF Execute, FailUnknownStep, ContinueStep, RaiseNotReady, RejectEnd,
        CreateIssue, SetRelation, SaveEnd, ClearSession, AtStep, AfterWait
  <2>4. QED
    BY <1>4, <2>1, <2>2, <2>3 DEF WorkerStep
<1> QED
  BY <1>1, <1>2, <1>3, <1>4 DEF SameMessages

LEMMA WorkerKeepsFilingInv ==
  ASSUME FilingInvs, TypeInv', OnceInv', NEW p \in Workers, WorkerStep(p)
  PROVE  FilingInv'
<1> USE DEF FilingInvs
<1>1. Others(p) /\ Moves(p)
  BY WorkerMoves
<1>2. event' = event
  BY DEF WorkerStep, Start, Resume, Execute, Receive, Acquire, SkipDuplicate,
     MarkDone, RefuseStart, AllowStart, CreateInstance, SetSession,
     IgnoreResume, LoadInstance, SaveResumed, FailUnknownStep, ContinueStep,
     RaiseNotReady, PostWaitMessage, SaveWaiting, RejectEnd, CreateIssue,
     SetRelation, NotifyEnd, SaveEnd, ClearSession, sqs
<1>3. IdInv' /\ \A q \in Workers : ChainInv(q)'
  BY <1>1, <1>2, WorkerKeepsChain, ChainFrame
  DEF EventsStay, FilingInv, TypeInv
<1>4. MsgInv'
  <2>0. /\ \A q \in Workers : InTry(q) => Ev(q) \in Events
        /\ \A q \in Workers : InTry(q)' => Ev(q)' \in Events
        /\ \A q \in Workers : q # p => worker'[q] = worker[q]
        /\ MsgInv
    BY <1>1
    DEF TypeInv, WorkerInv, LocalInv, InTry, Ev, Others, FilingInv
  <2>1. ASSUME NEW d \in Events, message'[d] # None
        PROVE  pending'[d] # "absent"
    <3>1. pending[d] # "absent" => pending'[d] # "absent"
      BY <1>1
      DEF Moves, Leaves, Enters, Runs, Posts, PendingDone, TryAcquire,
          TypeInv, TypeOK
    <3>2. CASE message[d] # None
      BY <2>0, <3>1, <3>2 DEF MsgInv
    <3>3. CASE message[d] = None
      <4>1. d = Ev(p) /\ worker[p].pc = "run"
        BY <2>1, <3>3, WorkerMessages DEF PostsMessage, SameMessages
      <4>2. QED
        BY <3>1, <4>1 DEF OnceInv, InTry
    <3>4. QED
      BY <3>2, <3>3
  <2>2. ASSUME NEW q \in Workers, q # p, InTry(q)', message'[Ev(q)'] # None
        PROVE  worker'[q].pc \in AfterWait
    <3>1. InTry(q) /\ Ev(q)' = Ev(q) /\ worker'[q].pc = worker[q].pc
      BY <2>0, <2>2 DEF InTry, Ev
    <3>2. Ev(p) # Ev(q) \/ ~ InTry(p)
      BY <2>2, <3>1 DEF OnceInv
    <3>3. message[Ev(q)] # None
      BY <2>0, <2>2, <3>1, <3>2, WorkerMessages
      DEF PostsMessage, SameMessages, InTry
    <3>4. QED
      BY <2>0, <3>1, <3>3 DEF MsgInv
  <2>3. ASSUME InTry(p)', message'[Ev(p)'] # None
        PROVE  worker'[p].pc \in AfterWait
    <3>1. CASE PostsMessage(p)
      BY <3>1 DEF PostsMessage, AfterWait
    <3>2. CASE ~ PostsMessage(p)
      <4>1. /\ SameMessages
            /\ worker[p].pc \in AfterWait => worker'[p].pc \in AfterWait
        BY <2>3, <3>2, WorkerMessages
      <4>2. /\ Ev(p)' = Ev(p) /\ Ev(p) \in Events
            /\ InTry(p) \/ pending[Ev(p)] = "absent"
        BY <1>1, <2>3
        DEF Moves, Leaves, Enters, Runs, Posts, TryAcquire
      <4>3. message[Ev(p)] # None
        BY <2>3, <4>1, <4>2 DEF SameMessages
      <4>4. QED
        BY <2>0, <4>1, <4>2, <4>3 DEF MsgInv
    <3>3. QED
      BY <3>1, <3>2
  <2>4. QED
    BY <2>1, <2>2, <2>3 DEF MsgInv
<1> QED
  BY <1>3, <1>4 DEF FilingInv

LEMMA OthersKeepFilingInv ==
  ASSUME FilingInvs, UNCHANGED <<message, pending>>,
         \/ UNCHANGED worker /\ EventsStay /\ UNCHANGED wfTable
         \/ UNCHANGED <<worker, event>> /\ IdInv'
         \/ \E p \in Workers : /\ Others(p) /\ worker'[p].pc = "idle"
                               /\ UNCHANGED <<event, wfTable>>
  PROVE  FilingInv'
<1> USE DEF FilingInvs, FilingInv
<1>0. /\ \A q \in Workers : worker[q].pc \in WithInstance \/ InTry(q) =>
             Ev(q) \in Events /\ event[Ev(q)] # None
      /\ EventsStay
  BY DEF TypeInv, WorkerInv, LocalInv, Ev, InTry, EventsStay, WithInstance
<1>1. IdInv'
  BY DEF IdInv
<1>2. ASSUME NEW q \in Workers
      PROVE  \/ worker'[q] = worker[q]
             \/ worker'[q].pc = "idle"
  BY DEF Others
<1>3. ASSUME NEW q \in Workers
      PROVE  ChainInv(q)'
  BY <1>0, <1>2 DEF ChainInv, Ev, Inst, EventsStay, WithInstance
<1>4. MsgInv'
  BY <1>2 DEF MsgInv, InTry, Ev
<1> QED
  BY <1>1, <1>3, <1>4

LEMMA DropKeepsIdInv ==
  ASSUME TypeInv, IdInv, NEW a \in Invocations,
         Drop(a) \/ DropStep(a) \/ DropCrash(a)
  PROVE  IdInv' /\ UNCHANGED <<worker, event, message, pending, issues>>
<1> USE DEF tables, sqs, slack
<1>1. CASE DropSave(a)
  <2> DEFINE i == [drop[a].inst EXCEPT !.status = "CANCELLED"]
  <2>1. Save(i) /\ drop[a].inst \in Instance
    BY <1>1 DEF DropSave, DropAt, TypeInv, DropInv
  <2>2. i \in Instance
    BY <2>1 DEF Instance, Status
  <2> HIDE DEF i
  <2>3. IdInv'
    BY <2>1, <2>2, SaveKeepsIdInv DEF TypeInv
  <2>4. QED
    BY <1>1, <2>3 DEF DropSave
<1>2. CASE ~ DropSave(a)
  BY <1>2
  DEF Drop, DropCommand, DropButton, DropStep, DropLoad, DropLoadFails,
      DropClear, DropCrash, IdInv
<1> QED
  BY <1>1, <1>2

(* what the users do to the event bodies: nothing, or one new event *)
NewEvent(d, e) ==
  /\ event[d] = None
  /\ event' = [event EXCEPT ![d] = e]

LEMMA UserEvents ==
  ASSUME TypeInv, User
  PROVE  /\ UNCHANGED <<wfTable, worker, message, pending, issues>>
         /\ \/ UNCHANGED event
            \/ \E d \in Events, e \in Event :
                 /\ NewEvent(d, e)
                 /\ e.type = "accept" => e.wf \in Proposed
<1> USE DEF tables, sqs, slack, Send, NewEvent
<1>1. CASE \E m \in Events : PressReject(m)
  BY <1>1 DEF PressReject
<1>2. ASSUME NEW d \in Events, NEW k \in Keys, NEW sub \in Requests,
             SubmitRequest(d, k, sub)
      PROVE  /\ UNCHANGED <<wfTable, worker, message, pending, issues>>
             /\ \E e \in Event : NewEvent(d, e) /\ e.type # "accept"
  BY <1>2, StartEventType, InputsAssumption DEF SubmitRequest, StartEvent
<1>3. ASSUME NEW d \in Events, NEW m \in Events, PressAccept(d, m)
      PROVE  /\ UNCHANGED <<wfTable, worker, message, pending, issues>>
             /\ \E e \in Event : NewEvent(d, e) /\ e.wf \in Proposed
  <2> DEFINE e == ResumeEvent("accept", message[m].wf, FALSE)
  <2>1. message[m].wf \in WorkflowIds
    BY <1>3, PressableType DEF PressAccept, TypeInv
  <2>2. e \in Event /\ e.wf = message[m].wf
    BY <2>1, ResumeEventType DEF ResumeEvent, ResumeActions
  <2>3. message[m].wf \in Proposed
    BY <1>3, <2>1 DEF PressAccept, Pressable, Proposed
  <2>4. QED
    BY <1>3, <2>2, <2>3 DEF PressAccept
<1>4. ASSUME NEW d \in Events, NEW m \in Events, NEW decision \in Choices,
             PressDecision(d, m, decision)
      PROVE  /\ UNCHANGED <<wfTable, worker, message, pending, issues>>
             /\ \E e \in Event : NewEvent(d, e) /\ e.type # "accept"
  <2> DEFINE e == ResumeEvent(decision, message[m].wf, FALSE)
  <2>1. message[m].wf \in WorkflowIds
    BY <1>4, PressableType DEF PressDecision, TypeInv
  <2>2. e \in Event /\ e.type # "accept"
    BY <2>1, ResumeEventType, InputsAssumption
    DEF ResumeEvent, ResumeActions, Decision
  <2>3. QED
    BY <1>4, <2>2 DEF PressDecision
<1>5. ASSUME NEW d \in Events, NEW w \in WorkflowIds, NEW fb \in Comments,
             SubmitReject(d, w, fb)
      PROVE  /\ UNCHANGED <<wfTable, worker, message, pending, issues>>
             /\ \E e \in Event : NewEvent(d, e) /\ e.type # "accept"
  <2>1. ResumeEvent("reject", w, fb) \in Event
    BY ResumeEventType, InputsAssumption DEF ResumeActions
  <2>2. QED
    BY <1>5, <2>1 DEF SubmitReject, ResumeEvent
<1> QED
  BY <1>1, <1>2, <1>3, <1>4, <1>5 DEF User, Press

LEMMA NextKeepsFilingInv ==
  FilingInvs /\ TypeInv' /\ OnceInv' /\ [Next]_vars => FilingInv'
<1> SUFFICES ASSUME FilingInvs, TypeInv', OnceInv', [Next]_vars
             PROVE  FilingInv'
  OBVIOUS
<1> USE DEF FilingInvs
<1>1. ASSUME NEW p \in Workers, WorkerStep(p)
      PROVE  FilingInv'
  BY <1>1, WorkerKeepsFilingInv
<1>2. ASSUME NEW p \in Workers, Raise(p) \/ Crash(p)
      PROVE  FilingInv'
  <2>1. Finish(p) /\ UNCHANGED <<message, pending, event, wfTable>>
    BY <1>2 DEF Raise, Crash, tables, sqs, slack
  <2>2. Others(p) /\ worker'[p].pc = "idle"
    BY <2>1, FinishType DEF TypeInv, TypeOK
  <2>3. QED
    BY <2>1, <2>2, OthersKeepFilingInv
<1>3. CASE User
  <2>1. EventsStay
    BY <1>3, UserEvents DEF EventsStay, NewEvent, TypeInv, TypeOK
  <2>2. QED
    BY <1>3, <2>1, UserEvents, OthersKeepFilingInv
<1>4. CASE \E a \in Invocations : Drop(a) \/ DropStep(a) \/ DropCrash(a)
  BY <1>4, DropKeepsIdInv, OthersKeepFilingInv DEF FilingInv
<1>5. CASE UNCHANGED <<worker, event, message, pending, wfTable>>
  BY <1>5, OthersKeepFilingInv DEF EventsStay
<1>6. CASE \E d \in Events : Resend(d)
  BY <1>5, <1>6 DEF Resend, tables, slack
<1>7. CASE \E w \in WorkflowIds : ExpireWorkflow(w)
  <2>1. IdInv'
    BY <1>7 DEF ExpireWorkflow, TypeInv, TypeOK, FilingInv, IdInv
  <2>2. QED
    BY <1>7, <2>1, OthersKeepFilingInv DEF ExpireWorkflow, sqs, slack
<1>8. CASE \E k \in Keys : ExpireSession(k)
  BY <1>5, <1>8 DEF ExpireSession, sqs, slack
<1>9. CASE UNCHANGED vars
  BY <1>5, <1>9 DEF vars, tables, sqs, slack
<1> QED
  BY <1>1, <1>2, <1>3, <1>4, <1>6, <1>7, <1>8, <1>9 DEF Next

LEMMA InitFilingInv == Init => FilingInv
  BY DEF Init, FilingInv, IdInv, ChainInv, MsgInv, WithInstance, Idle, InTry

LEMMA FilingInvHolds == Spec => []FilingInvs
<1>1. FilingInvs /\ TypeInv' /\ OnceInv' /\ [Next]_vars => FilingInvs'
  BY NextKeepsFilingInv DEF FilingInvs
<1>2. TypeInv /\ OnceInv /\ FilingInv <=> FilingInvs
  BY DEF FilingInvs
<1> QED
  BY <1>1, <1>2, InitFilingInv, TypeInvHolds, OnceInvHolds, PTL DEF Spec

-----------------------------------------------------------------------------
(* What a step of the system is to IssueFiling.                            *)

LEMMA Unseen ==
  ASSUME UNCHANGED <<message, event, issues>>
  PROVE  UNCHANGED Filing!vars
  BY DEF Filing!vars, Proposed, Accepted, FiledIssues

LEMMA FiledIssuesSeq ==
  ASSUME issues \in Seq(Issue)
  PROVE  /\ FiledIssues \in Seq([press : Events, wf : WorkflowIds])
         /\ Len(FiledIssues) = Len(issues)
         /\ \A i \in 1 .. Len(issues) :
              FiledIssues[i] = [press |-> issues[i].ev, wf |-> issues[i].wf]
<1>1. \A i \in 1 .. Len(issues) : issues[i] \in Issue
  OBVIOUS
<1> QED
  BY <1>1 DEF FiledIssues, Issue

LEMMA PostProposes ==
  ASSUME FilingInvs, NEW p \in Workers, PostWaitMessage(p)
  PROVE  \/ UNCHANGED Filing!vars
         \/ \E w \in WorkflowIds : Filing!Propose(w)
<1> USE DEF At, Ev, Inst
<1>1. /\ worker[p].pc = "run" /\ Ev(p) \in Events /\ Inst(p) \in Instance
      /\ message \in [Events -> Message \union {None}]
      /\ message[Ev(p)] = None
  BY DEF FilingInvs, FilingInv, MsgInv, AfterWait, InTry, PostWaitMessage,
     AtStep, TypeInv, TypeOK, WorkerInv, LocalInv, WithInstance
<1> DEFINE new == WaitMessage(Inst(p))
<1>2. /\ message' = [message EXCEPT ![Ev(p)] = new]
      /\ UNCHANGED <<event, issues>>
  BY DEF PostWaitMessage, sqs
<1>3. new \in Message /\ new # None /\ new.wf \in WorkflowIds
  <2>1. Inst(p).step \in WaitSteps
    BY DEF PostWaitMessage, AtStep
  <2>2. new \in Message /\ new.wf \in WorkflowIds
    BY <1>1, <2>1 DEF WaitMessage, Message, Instance
  <2>3. QED
    BY <2>2, NoneIsNoRecord
<1> HIDE DEF new
<1>4. UNCHANGED <<Accepted, FiledIssues>>
  BY <1>2 DEF Accepted, FiledIssues
<1>5. CASE new.step = "wait_confirmation"
  <2>1. Proposed' = Proposed \union {new.wf}
    BY <1>1, <1>2, <1>3, <1>5 DEF Proposed
  <2>2. QED
    BY <1>3, <1>4, <2>1 DEF Filing!Propose
<1>6. CASE new.step # "wait_confirmation"
  <2>1. Proposed' = Proposed
    BY <1>1, <1>2, <1>3, <1>6 DEF Proposed
  <2>2. QED
    BY <1>4, <2>1 DEF Filing!vars
<1> QED
  BY <1>5, <1>6

LEMMA NotifyUnseen ==
  ASSUME TypeInv, NEW p \in Workers, NotifyEnd(p)
  PROVE  UNCHANGED Filing!vars
<1> USE DEF At, Ev, Inst
<1> DEFINE m == Inst(p).messageTs
<1>1. m # None => m \in Events /\ message[m] \in Message
  BY DEF NotifyEnd, TypeInv, TypeOK, MessageInv, HoldsPosted, Posted,
     WorkerInv, LocalInv, WithInstance, Instance, MaybeEvent
<1> DEFINE off == [message[m] EXCEPT !.live = FALSE]
<1>2. m # None => /\ off \in Message /\ off # None /\ message[m] # None
                  /\ off.wf = message[m].wf /\ off.step = message[m].step
  BY <1>1, NoneIsNoRecord DEF Message
<1>3. /\ message' = IF m = None THEN message ELSE [message EXCEPT ![m] = off]
      /\ UNCHANGED <<event, issues>>
  BY DEF NotifyEnd, sqs
<1> HIDE DEF off, m
<1>4. Proposed' = Proposed
  BY <1>1, <1>2, <1>3 DEF Proposed, TypeInv, TypeOK
<1> QED
  BY <1>3, <1>4 DEF Filing!vars, Accepted, FiledIssues

LEMMA CreateFiles ==
  ASSUME FilingInvs, NEW p \in Workers, CreateIssue(p)
  PROVE  Filing!File(Ev(p)) /\ Ev(p) \in Events
<1>1. /\ worker[p].pc = "run" /\ Ev(p) \in Events /\ Inst(p) \in Instance
      /\ Inst(p).step = "create_github_issue" /\ event[Ev(p)] # None
      /\ issues \in Seq(Issue)
  BY DEF FilingInvs, CreateIssue, AtStep, At, TypeInv, TypeOK, WorkerInv,
     LocalInv, WithInstance, Ev, Inst
<1>2. event[Ev(p)].type = "accept" /\ event[Ev(p)].wf = Inst(p).id
  BY <1>1 DEF FilingInvs, FilingInv, ChainInv, WithInstance, BeforeStep
<1>3. Accepted[Ev(p)] = Inst(p).id /\ Inst(p).id \in WorkflowIds
      /\ Inst(p).id # None
  BY <1>1, <1>2, NoneAssumption DEF Accepted, Instance
<1>4. \A i \in 1 .. Len(FiledIssues) : FiledIssues[i].press # Ev(p)
  <2>1. \A i \in 1 .. Len(issues) : issues[i].ev # Ev(p)
    BY <1>1 DEF FilingInvs, OnceInv, InTry, AfterPost
  <2>2. /\ Len(FiledIssues) = Len(issues)
        /\ \A i \in 1 .. Len(issues) : FiledIssues[i].press = issues[i].ev
    <3>1. Len(FiledIssues) = Len(issues)
      BY <1>1, FiledIssuesSeq
    <3>2. ASSUME NEW i \in 1 .. Len(issues)
          PROVE  FiledIssues[i].press = issues[i].ev
      <4>1. FiledIssues[i] = [press |-> issues[i].ev, wf |-> issues[i].wf]
        BY <1>1, FiledIssuesSeq
      <4>2. QED
        BY <4>1
    <3>3. QED
      BY <3>1, <3>2
  <2>3. QED
    BY <2>1, <2>2
<1> DEFINE new == [ev |-> Ev(p), wf |-> Inst(p).id, draft |-> Inst(p).draft,
                   relation |-> "none"]
           press == [press |-> Ev(p), wf |-> Inst(p).id]
<1>5. /\ issues' = Append(issues, new) /\ new \in Issue
      /\ UNCHANGED <<message, event>>
  BY <1>1 DEF CreateIssue, Issue, Instance, Relations, sqs, slack
<1>6. new.ev = Ev(p) /\ new.wf = Inst(p).id
  OBVIOUS
<1> HIDE DEF new
<1>7. FiledIssues' = Append(FiledIssues, press)
  <2>1. /\ Len(issues') = Len(issues) + 1 /\ Len(issues) \in Nat
        /\ \A i \in 1 .. Len(issues) : issues'[i] = issues[i]
        /\ issues'[Len(issues) + 1] = new
    BY <1>1, <1>5
  <2>2. FiledIssues' = [i \in 1 .. Len(issues) + 1 |->
                          IF i \in 1 .. Len(issues)
                            THEN [press |-> issues[i].ev, wf |-> issues[i].wf]
                            ELSE press]
    BY <2>1, <1>6 DEF FiledIssues
  <2>3. /\ FiledIssues \in Seq([press : Events, wf : WorkflowIds])
        /\ Len(FiledIssues) = Len(issues)
        /\ \A i \in 1 .. Len(issues) :
             FiledIssues[i] = [press |-> issues[i].ev, wf |-> issues[i].wf]
    BY <1>1, FiledIssuesSeq
  <2>4. press \in [press : Events, wf : WorkflowIds]
    BY <1>1, <1>3
  <2> HIDE DEF press
  <2>5. /\ Append(FiledIssues, press) \in Seq([press : Events, wf : WorkflowIds])
        /\ Len(Append(FiledIssues, press)) = Len(issues) + 1
        /\ \A i \in 1 .. Len(issues) :
             Append(FiledIssues, press)[i] = FiledIssues[i]
        /\ Append(FiledIssues, press)[Len(issues) + 1] = press
    BY <2>3, <2>4, AppendProperties
  <2>6. /\ FiledIssues' \in Seq([press : Events, wf : WorkflowIds])
        /\ Len(FiledIssues') = Len(issues) + 1
        /\ \A i \in 1 .. Len(issues) : FiledIssues'[i] = FiledIssues[i]
        /\ FiledIssues'[Len(issues) + 1] = press
    <3>1. \A i \in 1 .. Len(issues) : FiledIssues'[i] = FiledIssues[i]
      BY <2>1, <2>2, <2>3
    <3>2. FiledIssues'[Len(issues) + 1] = press
      BY <2>1, <2>2
    <3>3. issues' \in Seq(Issue)
      BY <1>1, <1>5, AppendProperties
    <3> DEFINE q == issues'
    <3>4. FiledIssues' = [i \in 1 .. Len(q) |->
                            [press |-> q[i].ev, wf |-> q[i].wf]]
      BY DEF FiledIssues
    <3>5. q \in Seq(Issue) /\ Len(q) = Len(issues) + 1
      BY <2>1, <3>3
    <3> HIDE DEF q
    <3>6. /\ FiledIssues' \in Seq([press : Events, wf : WorkflowIds])
          /\ Len(FiledIssues') = Len(issues) + 1
      BY <3>4, <3>5, FiledOfIssues
    <3>7. QED
      BY <3>1, <3>2, <3>6
  <2> DEFINE longer == Append(FiledIssues, press)
             filed  == FiledIssues'
  <2>7. \A i \in 1 .. Len(issues) + 1 : filed[i] = longer[i]
    BY <2>1, <2>5, <2>6
  <2>8. /\ filed \in Seq([press : Events, wf : WorkflowIds])
        /\ longer \in Seq([press : Events, wf : WorkflowIds])
        /\ Len(filed) = Len(longer)
        /\ \A i \in 1 .. Len(filed) : filed[i] = longer[i]
    BY <2>5, <2>6, <2>7
  <2> HIDE DEF filed, longer
  <2>9. filed = longer
    BY <2>8, SeqEqual
  <2>10. QED
    BY <2>9 DEF filed, longer
<1>8. UNCHANGED <<Proposed, Accepted>>
  BY <1>5 DEF Proposed, Accepted
<1> QED
  BY <1>1, <1>3, <1>4, <1>7, <1>8 DEF Filing!File

LEMMA RelationUnseen ==
  ASSUME TypeInv, NEW p \in Workers, SetRelation(p)
  PROVE  UNCHANGED Filing!vars
<1>1. /\ issues \in Seq(Issue) /\ worker[p].issue \in 1 .. Len(issues)
      /\ issues[worker[p].issue] \in Issue
  BY DEF SetRelation, At, TypeInv, TypeOK, WorkerInv, LocalInv
<1>2. /\ Len(issues') = Len(issues)
      /\ \A i \in 1 .. Len(issues) :
           issues'[i].ev = issues[i].ev /\ issues'[i].wf = issues[i].wf
      /\ UNCHANGED <<message, event>>
  BY <1>1 DEF SetRelation, Issue, sqs, slack
<1>3. FiledIssues' = FiledIssues
  BY <1>1, <1>2 DEF FiledIssues
<1> QED
  BY <1>2, <1>3 DEF Filing!vars, Proposed, Accepted

LEMMA UserAccepts ==
  ASSUME TypeInv, User
  PROVE  \/ UNCHANGED Filing!vars
         \/ \E d \in Events, w \in WorkflowIds : Filing!Accept(d, w)
<1>1. CASE UNCHANGED event
  BY <1>1, UserEvents, Unseen
<1>2. ASSUME NEW d \in Events, NEW e \in Event, NewEvent(d, e),
             e.type = "accept" => e.wf \in Proposed
      PROVE  \/ UNCHANGED Filing!vars
             \/ \E w \in WorkflowIds : Filing!Accept(d, w)
  <2>1. /\ UNCHANGED <<Proposed, FiledIssues>>
        /\ event \in [Events -> Event \union {None}]
        /\ e # None /\ Accepted[d] = None
    BY <1>2, UserEvents, NoneIsNoRecord
    DEF Proposed, FiledIssues, Accepted, NewEvent, TypeInv, TypeOK
  <2>2. event' = [event EXCEPT ![d] = e]
    BY <1>2 DEF NewEvent
  <2>3. CASE e.type = "accept"
    <3>1. Accepted' = [Accepted EXCEPT ![d] = e.wf]
      BY <2>1, <2>2, <2>3 DEF Accepted
    <3>2. e.wf \in Proposed /\ e.wf \in WorkflowIds
      BY <1>2, <2>3 DEF Proposed
    <3>3. QED
      BY <2>1, <3>1, <3>2 DEF Filing!Accept
  <2>4. CASE e.type # "accept"
    <3>1. Accepted' = Accepted
      BY <1>2, <2>1, <2>2, <2>4 DEF Accepted, NewEvent
    <3>2. QED
      BY <2>1, <3>1 DEF Filing!vars
  <2>5. QED
    BY <2>3, <2>4
<1> QED
  BY <1>1, <1>2, UserEvents

LEMMA NextFiles ==
  FilingInvs /\ [Next]_vars => [Filing!Next]_(Filing!vars)
<1> SUFFICES ASSUME FilingInvs, [Next]_vars
             PROVE  [Filing!Next]_(Filing!vars)
  OBVIOUS
<1> USE DEF FilingInvs, Filing!Next
<1>1. CASE UNCHANGED <<message, event, issues>>
  BY <1>1, Unseen
<1>2. ASSUME NEW p \in Workers, WorkerStep(p)
      PROVE  [Filing!Next]_(Filing!vars)
  <2>1. CASE \/ PostWaitMessage(p) \/ NotifyEnd(p) \/ CreateIssue(p)
             \/ SetRelation(p)
    BY <2>1, PostProposes, NotifyUnseen, CreateFiles, RelationUnseen
  <2>2. CASE ~ \/ PostWaitMessage(p) \/ NotifyEnd(p) \/ CreateIssue(p)
               \/ SetRelation(p)
    <3>1. UNCHANGED <<message, event, issues>>
      BY <1>2, <2>2
      DEF WorkerStep, Start, Resume, Execute, Receive, Acquire,
          SkipDuplicate, MarkDone, RefuseStart, AllowStart, CreateInstance,
          SetSession, IgnoreResume, LoadInstance, SaveResumed,
          FailUnknownStep, ContinueStep, RaiseNotReady, SaveWaiting,
          RejectEnd, SaveEnd, ClearSession, sqs, slack
    <3>2. QED
      BY <1>1, <3>1
  <2>3. QED
    BY <2>1, <2>2
<1>3. ASSUME NEW p \in Workers, Raise(p) \/ Crash(p)
      PROVE  [Filing!Next]_(Filing!vars)
  BY <1>1, <1>3 DEF Raise, Crash, sqs, slack
<1>4. CASE User
  BY <1>4, UserAccepts
<1>5. CASE \E a \in Invocations : Drop(a) \/ DropStep(a) \/ DropCrash(a)
  BY <1>1, <1>5, DropKeepsIdInv DEF FilingInv
<1>6. CASE \/ \E d \in Events : Resend(d)
           \/ \E w \in WorkflowIds : ExpireWorkflow(w)
           \/ \E k \in Keys : ExpireSession(k)
           \/ UNCHANGED vars
  BY <1>1, <1>6
  DEF Resend, ExpireWorkflow, ExpireSession, vars, sqs, slack
<1> QED
  BY <1>2, <1>3, <1>4, <1>5, <1>6 DEF Next

(***************************************************************************)
(* Whatever the faults, the queue and the interleaving of workers and      *)
(* drops, the bot files an issue only for an acceptance of a draft that    *)
(* was proposed for that workflow, and never twice for one acceptance.     *)
(***************************************************************************)
THEOREM SystemFilesAsPromised == Spec => FilesAsPromised
<1>1. Init => Filing!Init
  BY DEF Init, Filing!Init, Proposed, Accepted, FiledIssues
<1> QED
  BY <1>1, NextFiles, FilingInvHolds, PTL DEF Spec, FilesAsPromised, Filing!Spec
=============================================================================
