-------------------------- MODULE StaleReads_proofs --------------------------
(***************************************************************************)
(* What holds of Barlow holds over a workflow table whose reads may miss   *)
(* the last write too: for every number of users, workflows, events,       *)
(* workers and drops, every budget of faults and every number of reads     *)
(* that miss a write.                                                      *)
(*                                                                         *)
(* A read that misses a write brings back the version that write replaced. *)
(* So whatever the proofs of Barlow rest on has to stay true of a record   *)
(* after it was replaced, which Carried says.                              *)
(***************************************************************************)
EXTENDS StaleReads, BarlowRecords_proofs

(***************************************************************************)
(* The invariants of Barlow, all together.                                 *)
(***************************************************************************)
BarlowInv == RecordInvs /\ DoneInv /\ HumanInv /\ WaitInv /\ ReleaseInv

LEMMA InitBarlowInv == Init => BarlowInv
<1>1. Init => FilingInvs
  BY InitTypeInv, InitOnceInv, InitFilingInv DEF FilingInvs
<1> QED
  BY <1>1, InitOwnInv, InitFreshInv, InitStepInvs, InitDoneInv, InitHumanInv,
     InitWaitInv, InitReleaseInv DEF BarlowInv, RecordInvs

LEMMA NextKeepsFilingInvs == FilingInvs /\ [Next]_vars => FilingInvs'
<1>1. FilingInvs /\ [Next]_vars => TypeInv'
  BY NextKeepsTypeInv DEF FilingInvs
<1>2. FilingInvs /\ [Next]_vars => OnceInv'
  BY <1>1, NextKeepsOnceInv DEF FilingInvs
<1> QED
  BY <1>1, <1>2, NextKeepsFilingInv DEF FilingInvs

LEMMA NextKeepsBarlowInv == BarlowInv /\ [Next]_vars => BarlowInv'
  BY NextKeepsFilingInvs, NextKeepsOwnInv, NextKeepsFreshInv,
     NextKeepsStepInvs, NextKeepsDoneInv, NextKeepsHumanInv, NextKeepsWaitInv,
     NextKeepsReleaseInv DEF BarlowInv, RecordInvs

-----------------------------------------------------------------------------
(***************************************************************************)
(* What a record keeps saying after it was replaced: that its issue is as  *)
(* it was when it said COMPLETED, that its message is one of its workflow  *)
(* which no worker is about to announce, who asked for its draft, and      *)
(* whose workflow it is.                                                   *)
(***************************************************************************)
Settled(c) ==
  c.status = "COMPLETED" =>
    /\ Recorded(c)
    /\ c.step = "create_github_issue" =>
         \A p \in Workers : worker[p].pc = "relate" => worker[p].issue # c.url

Placed(c) ==
  c.messageTs # None =>
    /\ message[c.messageTs] # None /\ message[c.messageTs].wf = c.id
    /\ \A p \in Workers : worker[p].pc = "saveWaiting" => Ev(p) # c.messageTs

Owned(c) ==
  /\ c.id \in created
  /\ \A o \in Copies : o.id = c.id => o.key = c.key
  /\ \A k \in Keys : session[k] = c.id => k = c.key

Carried(c) ==
  Settled(c) /\ Placed(c) /\ Owned(c) /\ Drafted(c.draft, c.id)

OlderInv ==
  /\ older \in [WorkflowIds -> Instance \union {None}]
  /\ \A w \in WorkflowIds :
       older[w] # None => older[w].id = w /\ Carried(older[w])

StaleInv == BarlowInv /\ OlderInv

(* what the records of Barlow are to the invariants that matter here *)
LEMMA BarlowInvGives ==
  ASSUME BarlowInv
  PROVE  /\ TypeInv /\ TypeOK /\ OnceInv /\ FilingInv /\ IdInv /\ MsgInv
         /\ OwnInv /\ FreshInv /\ DoneInv /\ HumanInv /\ WaitInv /\ ReleaseInv
         /\ \A p \in Workers : StepInv(p) /\ ChainInv(p) /\ LocalInv(p)
  BY DEF BarlowInv, RecordInvs, StepInvs, FilingInvs, FilingInv, TypeInv,
     WorkerInv

LEMMA TableCarried ==
  ASSUME BarlowInv, NEW w \in WorkflowIds, wfTable[w] # None
  PROVE  wfTable[w].id = w /\ Carried(wfTable[w])
<1> DEFINE c == wfTable[w]
<1>1. c \in Copies /\ c \in Instance /\ c.id = w
  BY BarlowInvGives, TableCopies DEF IdInv
<1>2. Settled(c)
  BY <1>1, BarlowInvGives DEF Settled, DoneInv, Relating, Untouched
<1>3. Placed(c)
  <2>1. ASSUME NEW p \in Workers, worker[p].pc = "saveWaiting"
        PROVE  Ev(p) # c.messageTs
    BY <1>1, <2>1, BarlowInvGives, OtherCopiesAre DEF WaitInv, Showing
  <2>2. QED
    BY <1>1, <2>1, BarlowInvGives DEF Placed, WaitInv
<1>4. Owned(c)
  BY <1>1, BarlowInvGives, NoneAssumption DEF Owned, OwnInv
<1>5. Drafted(c.draft, c.id)
  BY <1>1, BarlowInvGives DEF HumanInv
<1> QED
  BY <1>1, <1>2, <1>3, <1>4, <1>5 DEF Carried

-----------------------------------------------------------------------------
(* What a step of Barlow leaves true of a record that was replaced.        *)

LEMMA WorkerKeepsSettled ==
  ASSUME BarlowInv, NEW p \in Workers, Does(p), NEW c \in Instance, Settled(c)
  PROVE  Settled(c)'
<1>0. issues \in Seq(Issue) /\ Len(issues) \in Nat
  BY BarlowInvGives DEF TypeOK
<1>1. ASSUME NEW i \in Instance, Files(p, i)
      PROVE  Settled(c)'
  <2>1. /\ \A k \in 1 .. Len(issues) : issues'[k] = issues[k]
        /\ Len(issues') = Len(issues) + 1
    BY <1>0, <1>1 DEF Files
  <2>2. worker'[p].pc = "relate" => worker'[p].issue = Len(issues) + 1
    BY <1>1 DEF Files, Has
  <2>3. Recorded(c) => Recorded(c)'
    BY <1>0, <2>1 DEF Recorded
  <2>4. Recorded(c) /\ c.step = "create_github_issue"
          => c.url \in 1 .. Len(issues)
    BY DEF Recorded
  <2>5. \A q \in Workers : q # p => worker'[q] = worker[q]
    BY DEF Does, Others
  <2>6. QED
    BY <1>0, <2>2, <2>3, <2>4, <2>5 DEF Settled
<1>2. ASSUME NEW i \in Instance, Relates(p, i)
      PROVE  Settled(c)'
  <2> DEFINE n == worker[p].issue
  <2>1. /\ n \in 1 .. Len(issues) /\ worker[p].pc = "relate"
        /\ issues' = [issues EXCEPT ![n].relation = RelationOf(i)]
        /\ worker'[p].pc = "notify"
    BY <1>2, BarlowInvGives DEF Relates, Has, LocalInv
  <2>2. /\ Len(issues') = Len(issues)
        /\ \A k \in 1 .. Len(issues) : k # n => issues'[k] = issues[k]
    BY <1>0, <2>1
  <2>3. c.status = "COMPLETED" /\ c.step = "create_github_issue"
          => c.url # n /\ c.url \in 1 .. Len(issues)
    BY <2>1 DEF Settled, Recorded
  <2>4. c.status = "COMPLETED" => Recorded(c)'
    BY <2>2, <2>3 DEF Settled, Recorded
  <2>5. ASSUME NEW q \in Workers, worker'[q].pc = "relate"
        PROVE  worker'[q] = worker[q]
    BY <2>1, <2>5 DEF Does, Others
  <2>6. QED
    BY <2>4, <2>5 DEF Settled
<1>3. CASE ~ \E i \in Instance : Files(p, i) \/ Relates(p, i)
  <2>1. UNCHANGED issues
    BY <1>3
    DEF Does, Quits, Starts, Saves, Notifies, Creates, Loads, Thinks, Shows,
        Stops
  <2>2. ASSUME NEW q \in Workers, worker'[q].pc = "relate"
        PROVE  worker'[q] = worker[q]
    BY <1>3, <2>2
    DEF Does, Others, Quits, Starts, Saves, Notifies, Creates, Loads, Thinks,
        Shows, Stops, Has, Held, WithInstance
  <2>3. QED
    BY <2>1, <2>2 DEF Settled, Recorded
<1> QED
  BY <1>1, <1>2, <1>3

LEMMA WorkerKeepsPlaced ==
  ASSUME BarlowInv, NEW p \in Workers, Does(p), NEW c \in Instance, Placed(c)
  PROVE  Placed(c)'
<1> SUFFICES ASSUME c.messageTs # None PROVE Placed(c)'
  BY DEF Placed
<1>1. c.messageTs \in Events /\ message[c.messageTs] # None
  BY DEF Placed, Instance, MaybeEvent
<1>2. message'[c.messageTs] # None /\ message'[c.messageTs].wf = c.id
  BY <1>1, BarlowInvGives, WorkerKeepsProposals DEF Placed, ProposalsStay
<1>3. ASSUME NEW q \in Workers, worker'[q].pc = "saveWaiting"
      PROVE  Ev(q)' # c.messageTs
  <2>1. CASE q # p
    BY <1>3, <2>1 DEF Does, Others, Placed, Ev
  <2>2. CASE q = p
    <3>1. PICK i \in Instance : Shows(p, i)
      BY <1>3, <2>2
      DEF Does, Quits, Starts, Saves, Notifies, Creates, Loads, Thinks, Stops,
          Files, Relates, Has, Held, WithInstance
    <3>2. Ev(p)' = Ev(p) /\ message[Ev(p)] = None
      BY <3>1, BarlowInvGives DEF Shows, Has, Ev, MsgInv, InTry, AfterWait
    <3>3. QED
      BY <1>1, <2>2, <3>2
  <2>3. QED
    BY <2>1, <2>2
<1> QED
  BY <1>2, <1>3 DEF Placed

LEMMA WorkerKeepsOwned ==
  ASSUME BarlowInv, NEW p \in Workers, Does(p), NEW c \in Instance, Owned(c)
  PROVE  Owned(c)'
<1>0. TypeInv /\ TypeOK /\ c.id # None
  BY BarlowInvGives, NoneAssumption DEF Instance
<1>1. created \subseteq created'
  BY DEF Does, Quits, Starts, Saves, Notifies, Creates, Loads, Thinks, Shows,
         Stops, Files, Relates
<1>2. ASSUME NEW o \in Copies', o.id = c.id PROVE o.key = c.key
  BY <1>0, <1>2, Heirs DEF Owned, Creates
<1>3. ASSUME NEW k \in Keys, session'[k] = c.id PROVE k = c.key
  <2>1. CASE Starts(p)
    <3>1. Inst(p) \in Copies /\ Inst(p) \in Instance
      BY <1>0, <2>1, HeldCopies DEF Starts, Held, WithInstance
    <3>2. session' = [session EXCEPT ![Inst(p).key] = Inst(p).id]
      BY <2>1 DEF Starts, SessionSet
    <3>3. QED
      BY <1>0, <1>3, <3>1, <3>2 DEF Owned, TypeOK
  <2>2. CASE ~ Starts(p)
    <3>1. session'[k] \in {session[k], None}
      BY <2>2
      DEF Does, Quits, Saves, Notifies, Creates, Loads, Thinks, Shows, Stops,
          Files, Relates
    <3>2. QED
      BY <1>0, <1>3, <3>1 DEF Owned
  <2>3. QED
    BY <2>1, <2>2
<1> QED
  BY <1>1, <1>2, <1>3 DEF Owned

(* a user, a drop or an expiry *)
LEMMA OthersKeepCarried ==
  ASSUME BarlowInv, NEW c \in Instance, Carried(c),
         Asks \/ (\E a \in Invocations : Drops(a)) \/ Expires
  PROVE  Carried(c)'
<1>0. TypeInv /\ TypeOK /\ c.id # None
  BY BarlowInvGives, NoneAssumption DEF Instance
<1>1. /\ UNCHANGED <<message, issues, worker, created>>
      /\ \A k \in Keys : session'[k] \in {session[k], None}
  BY <1>0
  DEF Asks, Drops, Begins, Finds, Fails, Cancels, Frees, Expires, TypeOK
<1>2. EventsStay /\ ProposalsStay
  BY <1>0, <1>1
  DEF Asks, Drops, Expires, EventsStay, ProposalsStay, NewEvent, TypeOK
<1>3. Settled(c)' /\ Placed(c)'
  BY <1>1 DEF Carried, Settled, Recorded, Placed, Ev
<1>4. ASSUME NEW o \in Copies', o.id = c.id PROVE o.key = c.key
  BY <1>0, <1>4, OldCopies, DropCopies DEF Like, Carried, Owned
<1>5. Owned(c)'
  BY <1>0, <1>1, <1>4 DEF Carried, Owned
<1>6. Drafted(c.draft, c.id)'
  BY <1>0, <1>2, HumansStay DEF Carried, Instance
<1> QED
  BY <1>3, <1>5, <1>6 DEF Carried

LEMMA NextKeepsCarried ==
  ASSUME BarlowInv, [Next]_vars, NEW c \in Instance, Carried(c)
  PROVE  Carried(c)'
<1>1. ASSUME NEW p \in Workers, Does(p)
      PROVE  Carried(c)'
  <2>1. EventsStay /\ ProposalsStay
    BY <1>1, BarlowInvGives, WorkerKeepsProposals DEF Does, EventsStay
  <2>2. Drafted(c.draft, c.id)'
    BY <2>1, BarlowInvGives, HumansStay DEF Carried, Instance
  <2>3. QED
    BY <1>1, <2>2, WorkerKeepsSettled, WorkerKeepsPlaced, WorkerKeepsOwned
    DEF Carried
<1> QED
  BY <1>1, BarlowInvGives, NextDoes, OthersKeepCarried

(***************************************************************************)
(* A step of Barlow: what it replaces in the table is what the table had.  *)
(***************************************************************************)
LEMMA NextKeepsStaleInv == StaleInv /\ [Next]_vars /\ Keep => StaleInv'
<1> SUFFICES ASSUME BarlowInv, OlderInv, [Next]_vars, Keep
             PROVE  StaleInv'
  BY DEF StaleInv
<1>1. BarlowInv'
  BY NextKeepsBarlowInv
<1>2. /\ wfTable \in [WorkflowIds -> Instance \union {None}]
      /\ older \in [WorkflowIds -> Instance \union {None}]
  BY BarlowInvGives DEF TypeOK, OlderInv
<1>3. older' \in [WorkflowIds -> Instance \union {None}]
  BY <1>2 DEF Keep
<1>4. ASSUME NEW w \in WorkflowIds, older'[w] # None
      PROVE  older'[w].id = w /\ Carried(older'[w])
  <2>1. older'[w] = older[w] \/ older'[w] = wfTable[w]
    BY <1>2 DEF Keep
  <2>2. QED
    BY <1>4, <2>1, TableCarried DEF OlderInv
<1>5. ASSUME NEW w \in WorkflowIds, older'[w] # None
      PROVE  Carried(older[w])'
  <2>1. PICK c \in Instance : c = older'[w]
    BY <1>3, <1>5
  <2>2. Carried(c)'
    BY <1>4, <1>5, <2>1, NextKeepsCarried
  <2>3. QED
    BY <2>1, <2>2 DEF Carried, Settled, Placed, Owned, Drafted, Recorded
<1> QED
  BY <1>1, <1>3, <1>4, <1>5 DEF StaleInv, OlderInv

-----------------------------------------------------------------------------
(***************************************************************************)
(* A read that misses the last write: an invocation goes on with a record  *)
(* that is Carried, or without one; nothing else changes.                  *)
(***************************************************************************)
FromOlder(c) ==
  /\ c \in Instance /\ Carried(c)
  /\ older[c.id] # None
  /\ older[c.id].key = c.key /\ older[c.id].wtype = c.wtype

ReadBy(p, c) ==
  /\ worker[p].pc = "load" /\ Ev(p)' = Ev(p)
  /\ \/ /\ worker'[p].pc = "markDone" /\ stale > 0
        /\ ~ Resumable(older[event[Ev(p)].wf], event[Ev(p)].type)
     \/ /\ worker'[p].pc = "saveResumed" /\ Inst(p)' = c
        /\ FromOlder(c)
        /\ event[Ev(p)].type \in ResumeActions
        /\ c.id = event[Ev(p)].wf
        /\ c.status = "RUNNING" /\ c.step = RESUME_MAP[event[Ev(p)].type]
        /\ event[Ev(p)].type \in Decision => c.decision = event[Ev(p)].type

DropReads(a, c) ==
  /\ drop[a].pc = "load"
  /\ drop'[a].key = drop[a].key /\ drop'[a].wf = drop[a].wf
  /\ \/ drop'[a].pc = "clear"
     \/ /\ drop'[a].pc = "save" /\ drop'[a].inst = c
        /\ FromOlder(c) /\ c.id = drop[a].wf

Reads(c) ==
  /\ UNCHANGED <<tables, sqs, slack, issues, budget>>
  /\ worker' \in [Workers -> WorkerState]
  /\ drop' \in [Invocations -> DropState]
  /\ \A p \in Workers : worker'[p] = worker[p] \/ ReadBy(p, c)
  /\ \A a \in Invocations : drop'[a] = drop[a] \/ DropReads(a, c)

LEMMA LoadMissingReads ==
  ASSUME StaleInv, NEW p \in Workers, LoadMissing(p)
  PROVE  \E c : Reads(c)
<1> DEFINE e == event[Ev(p)]
           old == older[e.wf]
           i == Resumed(old, Ev(p), e)
<1>0. /\ BarlowInv /\ OlderInv /\ TypeOK /\ LocalInv(p) /\ EventInv
      /\ worker \in [Workers -> WorkerState]
      /\ drop \in [Invocations -> DropState]
  BY BarlowInvGives DEF StaleInv, TypeInv, TypeOK
<1>1. /\ worker[p].pc = "load" /\ stale > 0
      /\ UNCHANGED <<tables, sqs, slack, issues, drop, budget>>
  BY DEF LoadMissing, At, Missed
<1>2. Ev(p) \in Events /\ e \in Event /\ e.wf \in WorkflowIds
  BY <1>0, <1>1 DEF Ev, LocalInv, TypeOK, EventInv, EventOf
<1>3. CASE ~ Resumable(old, e.type)
  <2>1. Goto(p, "markDone")
    BY <1>3 DEF LoadMissing
  <2>2. /\ worker' \in [Workers -> WorkerState] /\ Others(p)
        /\ worker'[p].pc = "markDone" /\ worker'[p].ev = worker[p].ev
    BY <1>0, <2>1, GotoType DEF WorkerPc
  <2>3. Reads(None)
    BY <1>0, <1>1, <1>3, <2>2 DEF Reads, ReadBy, Ev, Others
  <2>4. QED
    BY <2>3
<1>4. CASE Resumable(old, e.type)
  <2>1. GotoWith(p, "saveResumed", i)
    BY <1>4 DEF LoadMissing
  <2>2. old # None /\ e.type \in ResumeActions
    BY <1>4 DEF Resumable, HasResume
  <2>3. old \in Instance /\ old.id = e.wf /\ Carried(old)
    BY <1>0, <1>2, <2>2 DEF OlderInv
  <2> HIDE DEF old, e
  <2>4. /\ i \in Instance /\ i.id = old.id /\ i.key = old.key
        /\ i.wtype = old.wtype
        /\ i.messageTs = old.messageTs /\ i.draft = old.draft
        /\ i.status = "RUNNING" /\ i.step = RESUME_MAP[e.type]
    BY <1>2, <2>2, <2>3, ResumedType
  <2>5. e.type \in Decision => i.decision = e.type
    BY <2>3 DEF Resumed, Instance
  <2> HIDE DEF i
  <2>6. Carried(i)
    BY <2>3, <2>4 DEF Carried, Settled, Placed, Owned
  <2>7. old = older[i.id]
    BY <2>3, <2>4 DEF old
  <2>8. /\ worker' \in [Workers -> WorkerState] /\ Others(p)
        /\ worker'[p].pc = "saveResumed" /\ worker'[p].inst = i
        /\ worker'[p].ev = worker[p].ev
    BY <1>0, <2>1, <2>4, GotoWithType DEF WorkerPc
  <2>9. ReadBy(p, i)
    BY <1>1, <2>2, <2>3, <2>4, <2>5, <2>6, <2>7, <2>8
    DEF ReadBy, FromOlder, Ev, Inst, e
  <2>10. Reads(i)
    BY <1>0, <1>1, <2>8, <2>9 DEF Reads, Others
  <2>11. QED
    BY <2>10
<1> QED
  BY <1>3, <1>4

LEMMA DropLoadMissingReads ==
  ASSUME StaleInv, NEW a \in Invocations, DropLoadMissing(a)
  PROVE  \E c : Reads(c)
<1> DEFINE c == older[drop[a].wf]
<1>0. /\ BarlowInv /\ OlderInv /\ TypeOK /\ DropInv
      /\ worker \in [Workers -> WorkerState]
      /\ drop \in [Invocations -> DropState] /\ drop[a] \in DropState
  BY BarlowInvGives DEF StaleInv, TypeInv, TypeOK
<1>1. /\ drop[a].pc = "load" /\ drop[a].wf \in WorkflowIds
      /\ UNCHANGED <<tables, sqs, slack, issues, worker, budget>>
  BY <1>0 DEF DropLoadMissing, DropAt, DropInv
<1>2. c \in Instance \union {None}
  BY <1>0, <1>1 DEF OlderInv
<1>3. drop' = [drop EXCEPT ![a].inst = c,
                           ![a].pc = IF c = None THEN "clear" ELSE "save"]
  BY DEF DropLoadMissing
<1>4. c # None => c.id = drop[a].wf /\ Carried(c) /\ older[c.id] = c
  BY <1>0, <1>1 DEF OlderInv
<1> HIDE DEF c
<1>5. /\ drop' \in [Invocations -> DropState]
      /\ \A b \in Invocations : b # a => drop'[b] = drop[b]
      /\ drop'[a].key = drop[a].key /\ drop'[a].wf = drop[a].wf
      /\ drop'[a].inst = c
      /\ drop'[a].pc = IF c = None THEN "clear" ELSE "save"
  BY <1>0, <1>2, <1>3 DEF DropState
<1>6. DropReads(a, c)
  BY <1>1, <1>2, <1>4, <1>5 DEF DropReads, FromOlder
<1>7. Reads(c)
  BY <1>0, <1>1, <1>5, <1>6 DEF Reads
<1> QED
  BY <1>7

(* what such a read adds to the copies *)
LEMMA ReadsCopies ==
  ASSUME TypeInv, NEW c, Reads(c)
  PROVE  /\ \A x \in Copies' : x \in Copies \/ (x = c /\ FromOlder(c))
         /\ \A q \in Workers : \A x \in OtherCopies(q)' :
              x \in OtherCopies(q) \/ (x = c /\ FromOlder(c))
<1>1. wfTable' = wfTable
  BY DEF Reads, tables
<1>2. ASSUME NEW q \in Workers, Held(q)'
      PROVE  \/ Held(q) /\ Inst(q)' = Inst(q)
             \/ Inst(q)' = c /\ FromOlder(c)
  BY <1>2 DEF Reads, ReadBy, Held, Inst, WithInstance
<1>3. ASSUME NEW a \in Invocations, drop'[a].pc = "save"
      PROVE  \/ drop[a].pc = "save" /\ drop'[a].inst = drop[a].inst
             \/ drop'[a].inst = c /\ FromOlder(c)
  BY <1>3 DEF Reads, DropReads
<1>4. \A x \in Copies' : x \in Copies \/ (x = c /\ FromOlder(c))
  BY <1>1, <1>2, <1>3 DEF Copies
<1>5. \A q \in Workers : \A x \in OtherCopies(q)' :
        x \in OtherCopies(q) \/ (x = c /\ FromOlder(c))
  BY <1>1, <1>2, <1>3 DEF OtherCopies
<1> QED
  BY <1>4, <1>5

(* what such a read leaves as it was *)
LEMMA ReadsFrame ==
  ASSUME NEW c, Reads(c)
  PROVE  /\ wfTable' = wfTable /\ created' = created /\ session' = session
         /\ pending' = pending /\ event' = event /\ queue' = queue
         /\ dlq' = dlq /\ message' = message /\ modal' = modal
         /\ issues' = issues /\ budget' = budget
         /\ \A p \in Workers :
              worker'[p].pc \notin {"saveResumed", "markDone"}
                => worker'[p] = worker[p]
         /\ \A a \in Invocations :
              drop'[a].pc \notin {"clear", "save"} => drop'[a] = drop[a]
  BY DEF Reads, ReadBy, DropReads, tables, sqs, slack

LEMMA ReadsKeepTypeInv ==
  ASSUME BarlowInv, NEW c, Reads(c)
  PROVE  TypeInv'
<1>0. TypeInv /\ TypeOK
  BY BarlowInvGives
<1>1. TypeOK'
  BY <1>0, ReadsFrame DEF TypeOK, Reads
<1>2. EventInv'
  BY <1>0, ReadsFrame DEF TypeInv, EventInv
<1>3. ASSUME NEW p \in Workers PROVE LocalInv(p)'
  <2>1. CASE worker'[p] = worker[p]
    BY <1>0, <2>1, ReadsFrame DEF TypeInv, WorkerInv, LocalInv
  <2>2. CASE ReadBy(p, c)
    BY <1>0, <2>2, ReadsFrame
    DEF TypeInv, WorkerInv, LocalInv, ReadBy, FromOlder, Ev, Inst, WithInstance
  <2>3. QED
    BY <2>1, <2>2 DEF Reads
<1>4. DropInv'
  BY <1>0 DEF Reads, DropReads, FromOlder, TypeInv, DropInv
<1>5. FromOlder(c) => Posted(c)'
  BY ReadsFrame DEF FromOlder, Carried, Placed, Posted
<1>6. ASSUME NEW w \in WorkflowIds, wfTable'[w] # None
      PROVE  Posted(wfTable[w])'
  BY <1>0, <1>6, ReadsFrame DEF TypeInv, MessageInv, Posted
<1>7. ASSUME NEW p \in Workers PROVE HoldsPosted(p)'
  <2>1. CASE worker'[p] = worker[p]
    BY <1>0, <2>1, ReadsFrame DEF TypeInv, MessageInv, HoldsPosted, Posted
  <2>2. CASE ReadBy(p, c)
    BY <1>5, <2>2 DEF ReadBy, HoldsPosted, Posted, Inst, WithInstance
  <2>3. QED
    BY <2>1, <2>2 DEF Reads
<1>8. ASSUME NEW a \in Invocations, drop'[a].pc = "save"
      PROVE  Posted(drop[a].inst)'
  <2>1. CASE drop'[a] = drop[a]
    BY <1>0, <1>8, <2>1, ReadsFrame DEF TypeInv, MessageInv, Posted
  <2>2. CASE DropReads(a, c)
    BY <1>5, <1>8, <2>2 DEF DropReads, Posted
  <2>3. QED
    BY <2>1, <2>2 DEF Reads
<1> QED
  BY <1>1, <1>2, <1>3, <1>4, <1>6, <1>7, <1>8 DEF TypeInv, WorkerInv, MessageInv

LEMMA ReadsKeepFilingInvs ==
  ASSUME BarlowInv, NEW c, Reads(c)
  PROVE  FilingInvs'
<1>0. OnceInv /\ IdInv /\ MsgInv /\ \A p \in Workers : ChainInv(p)
  BY BarlowInvGives
<1>1. ASSUME NEW p \in Workers
      PROVE  /\ InTry(p)' = InTry(p)
             /\ InTry(p) => Ev(p)' = Ev(p)
             /\ worker[p].pc \in AfterPost => worker'[p].pc \in AfterPost
             /\ worker[p].pc \in AfterWait => worker'[p].pc \in AfterWait
  BY DEF Reads, ReadBy, InTry, Ev, AfterPost, AfterWait
<1>2. OnceInv'
  <2>1. \A p \in Workers : InTry(p)' => pending'[Ev(p)'] = "PROCESSING"
    BY <1>0, <1>1, ReadsFrame DEF OnceInv
  <2>2. \A p, q \in Workers :
          InTry(p)' /\ InTry(q)' /\ Ev(p)' = Ev(q)' => p = q
    BY <1>0, <1>1 DEF OnceInv
  <2>3. \A i \in 1 .. Len(issues') : pending'[issues'[i].ev] # "absent"
    BY <1>0, ReadsFrame DEF OnceInv
  <2>4. \A p \in Workers, i \in 1 .. Len(issues') :
          InTry(p)' /\ issues'[i].ev = Ev(p)' => worker'[p].pc \in AfterPost
    BY <1>0, <1>1, ReadsFrame DEF OnceInv
  <2>5. OneIssuePerEvent'
    BY <1>0, ReadsFrame DEF OnceInv, OneIssuePerEvent
  <2>6. QED
    BY <2>1, <2>2, <2>3, <2>4, <2>5 DEF OnceInv
<1>3. MsgInv'
  BY <1>0, <1>1, ReadsFrame DEF MsgInv
<1>4. ASSUME NEW p \in Workers PROVE ChainInv(p)'
  <2>1. CASE worker'[p] = worker[p]
    BY <1>0, <2>1, ReadsFrame DEF ChainInv, Ev, Inst
  <2>2. CASE ReadBy(p, c)
    <3>1. event[Ev(p)].type \in ResumeActions =>
            (RESUME_MAP[event[Ev(p)].type] = "create_github_issue"
               => event[Ev(p)].type = "accept")
      BY DEF RESUME_MAP, ResumeActions, Decision
    <3>2. QED
      BY <2>2, <3>1, ReadsFrame DEF ReadBy, ChainInv, WithInstance, BeforeStep
  <2>3. QED
    BY <2>1, <2>2 DEF Reads
<1>5. IdInv'
  BY <1>0, ReadsFrame DEF IdInv
<1> QED
  BY <1>2, <1>3, <1>4, <1>5, ReadsKeepTypeInv DEF FilingInvs, FilingInv

LEMMA ReadsKeepStepInvs ==
  ASSUME BarlowInv, NEW c, Reads(c)
  PROVE  StepInvs'
<1> SUFFICES ASSUME NEW p \in Workers PROVE StepInv(p)'
  BY DEF StepInvs
<1>1. StepInv(p)
  BY BarlowInvGives
<1>2. CASE worker'[p] = worker[p]
  BY <1>1, <1>2, ReadsFrame DEF StepInv, Under, Ev, Inst
<1>3. CASE ReadBy(p, c)
  <2>1. CASE worker'[p].pc = "markDone"
    BY <2>1 DEF StepInv, BeforeStep
  <2>2. CASE worker'[p].pc # "markDone"
    BY <1>3, <2>2, ReadsFrame, ResumesUnder
    DEF ReadBy, StepInv, Under, BeforeStep, Decision
  <2>3. QED
    BY <2>1, <2>2
<1> QED
  BY <1>2, <1>3 DEF Reads

LEMMA ReadsKeepOwnInv ==
  ASSUME BarlowInv, NEW c, Reads(c)
  PROVE  OwnInv'
<1>0. OwnInv /\ TypeInv
  BY BarlowInvGives
<1>1. \A x \in Copies' : x \in Copies \/ (x = c /\ FromOlder(c))
  BY <1>0, ReadsCopies
<1>2. FromOlder(c) => Owned(c)
  BY DEF FromOlder, Carried
<1>3. \A x \in Copies' : x.id \in created
  BY <1>0, <1>1, <1>2 DEF OwnInv, Owned
<1>4. ASSUME NEW x \in Copies', NEW y \in Copies', x.id = y.id
      PROVE  x.key = y.key
  BY <1>0, <1>1, <1>2, <1>4 DEF OwnInv, Owned
<1>5. ASSUME NEW k \in Keys, session[k] # None
      PROVE  /\ session[k] \in created
             /\ \A x \in Copies' : x.id = session[k] => x.key = k
  BY <1>0, <1>1, <1>2, <1>5 DEF OwnInv, Owned
<1> QED
  BY <1>3, <1>4, <1>5, ReadsFrame DEF OwnInv

LEMMA ReadsKeepFreshInv ==
  ASSUME BarlowInv, NEW c, Reads(c)
  PROVE  FreshInv'
<1>0. FreshInv /\ TypeInv
  BY BarlowInvGives
<1>1. ASSUME NEW w \in WorkflowIds, Names(w)' PROVE Names(w)
  <2>1. CASE \E p \in Workers :
               Held(p)' /\ worker'[p].pc # "setSession" /\ Inst(p)'.id = w
    <3>1. PICK p \in Workers :
            Held(p)' /\ worker'[p].pc # "setSession" /\ Inst(p)'.id = w
      BY <2>1
    <3>2. CASE worker'[p] = worker[p]
      BY <3>1, <3>2 DEF Names, Held, Inst
    <3>3. CASE ReadBy(p, c)
      <4>1. w = event[Ev(p)].wf /\ Ev(p) \in Events /\ event[Ev(p)] # None
        BY <1>0, <3>1, <3>3
        DEF ReadBy, Held, WithInstance, TypeInv, WorkerInv, LocalInv, Ev
      <4>2. QED
        BY <4>1 DEF Names
    <3>4. QED
      BY <3>2, <3>3 DEF Reads
  <2>2. CASE \E a \in Invocations : drop'[a].pc # "ready" /\ drop'[a].wf = w
    BY <2>2 DEF Reads, DropReads, Names
  <2>3. QED
    BY <1>1, <2>1, <2>2, ReadsFrame DEF Names
<1>2. ASSUME NEW p \in Workers, Fresh(p)'
      PROVE  Fresh(p) /\ Inst(p)' = Inst(p)
  BY <1>2, ReadsFrame DEF Fresh, Inst
<1>3. ASSUME NEW p \in Workers, Fresh(p)'
      PROVE  Inst(p)'.id \in WorkflowIds
  BY <1>0, <1>2, <1>3, HeldCopies DEF Fresh, Held, WithInstance, Instance
<1>4. \A w \in WorkflowIds : Names(w)' => w \in created'
  BY <1>0, <1>1, ReadsFrame DEF FreshInv
<1>5. ASSUME NEW p \in Workers, Fresh(p)'
      PROVE  (Inst(p).id \in created /\ ~ Names(Inst(p).id))'
  <2>1. PICK w \in WorkflowIds : w = Inst(p)'.id
    BY <1>3, <1>5
  <2>2. w = Inst(p).id /\ w \in created /\ ~ Names(w)
    BY <1>0, <1>2, <1>5, <2>1 DEF FreshInv
  <2>3. w \in created' /\ ~ Names(w)'
    BY <1>1, <2>2, ReadsFrame
  <2>4. Names(Inst(p).id)' => Names(w)'
    BY <2>1 DEF Names
  <2>5. QED
    BY <2>1, <2>3, <2>4
<1>6. \A p, q \in Workers :
        Fresh(p)' /\ Fresh(q)' /\ Inst(p)'.id = Inst(q)'.id => p = q
  BY <1>0, <1>2 DEF FreshInv
<1> QED
  BY <1>4, <1>5, <1>6 DEF FreshInv

LEMMA ReadsKeepDoneInv ==
  ASSUME BarlowInv, NEW c, Reads(c)
  PROVE  DoneInv'
<1>0. DoneInv /\ TypeInv
  BY BarlowInvGives
<1>1. \A x \in Copies' : x \in Copies \/ (x = c /\ FromOlder(c))
  BY <1>0, ReadsCopies
<1>2. FromOlder(c) => Settled(c)
  BY DEF FromOlder, Carried
<1>3. ASSUME NEW x \in Copies', x.status = "COMPLETED" PROVE Recorded(x)'
  <2>1. Recorded(x)
    BY <1>0, <1>1, <1>2, <1>3 DEF DoneInv, Settled
  <2>2. QED
    BY <2>1, ReadsFrame DEF Recorded
<1>4. ASSUME NEW p \in Workers, worker'[p].pc = "relate" PROVE Relating(p)'
  <2>1. worker'[p] = worker[p] /\ Relating(p) /\ worker[p].pc = "relate"
    BY <1>0, <1>4, ReadsFrame DEF DoneInv
  <2>2. ASSUME NEW x \in Copies', x.status = "COMPLETED",
               x.step = "create_github_issue"
        PROVE  x.url # worker[p].issue
    BY <1>1, <1>2, <2>1, <2>2 DEF Relating, Untouched, Settled
  <2>3. Untouched(worker[p].issue)'
    BY <2>1, <2>2 DEF Untouched
  <2>4. QED
    BY <2>1, <2>3, ReadsFrame DEF Relating, Untouched, Inst, Ev
<1> QED
  BY <1>3, <1>4 DEF DoneInv

LEMMA ReadsKeepHumanInv ==
  ASSUME BarlowInv, NEW c, Reads(c)
  PROVE  HumanInv'
<1>0. HumanInv /\ TypeInv
  BY BarlowInvGives
<1>1. \A x \in Copies' : x \in Copies \/ (x = c /\ FromOlder(c))
  BY <1>0, ReadsCopies
<1>2. ASSUME NEW x \in Copies' PROVE Drafted(x.draft, x.id)'
  <2>1. Drafted(x.draft, x.id)
    BY <1>0, <1>1 DEF HumanInv, FromOlder, Carried
  <2>2. QED
    BY <2>1, ReadsFrame DEF Drafted
<1>3. \A w \in WorkflowIds : ProposedTo(w)' = ProposedTo(w)
  BY ReadsFrame DEF ProposedTo, Proposes
<1>4. \A w \in WorkflowIds : Decided(w)' = Decided(w)
  BY ReadsFrame DEF Decided
<1>5. \A w \in WorkflowIds : ProposedTo(w)' => Decided(w)'
  BY <1>0, <1>3, <1>4 DEF HumanInv
<1>6. \A w \in modal' : Decided(w)'
  BY <1>0, ReadsFrame DEF HumanInv, Decided
<1>7. \A d \in Events :
        event'[d] # None =>
          /\ event'[d].type = "reject" => Decided(event[d].wf)'
          /\ event'[d].type = "accept" => ProposedTo(event[d].wf)'
  BY <1>0, ReadsFrame DEF HumanInv, Decided, ProposedTo, Proposes
<1>8. \A n \in 1 .. Len(issues') : Consented(issues[n])'
  BY <1>0, ReadsFrame
  DEF HumanInv, Consented, Decided, ProposedTo, Proposes, Drafted
<1> QED
  BY <1>2, <1>5, <1>6, <1>7, <1>8 DEF HumanInv

LEMMA ReadsKeepWaitInv ==
  ASSUME BarlowInv, NEW c, Reads(c)
  PROVE  WaitInv'
<1>0. WaitInv /\ TypeInv
  BY BarlowInvGives
<1>1. /\ \A x \in Copies' : x \in Copies \/ (x = c /\ FromOlder(c))
      /\ \A q \in Workers : \A x \in OtherCopies(q)' :
           x \in OtherCopies(q) \/ (x = c /\ FromOlder(c))
  BY <1>0, ReadsCopies
<1>2. FromOlder(c) => Placed(c)
  BY DEF FromOlder, Carried
<1>3. ASSUME NEW w \in WorkflowIds, Waiting(w)' PROVE ShownAs(wfTable[w])'
  BY <1>0, <1>3, ReadsFrame DEF WaitInv, Waiting, ShownAs
<1>4. ASSUME NEW x \in Copies', x.messageTs # None
      PROVE  message[x.messageTs] # None /\ message[x.messageTs].wf = x.id
  BY <1>0, <1>1, <1>2, <1>4 DEF WaitInv, Placed
<1>5. ASSUME NEW q \in Workers, worker'[q].pc = "saveWaiting"
      PROVE  Showing(q)'
  <2>1. worker'[q] = worker[q] /\ worker[q].pc = "saveWaiting" /\ Showing(q)
    BY <1>0, <1>5, ReadsFrame DEF WaitInv
  <2>2. Ev(q) # None
    BY <1>0, <2>1, NoneAssumption DEF TypeInv, WorkerInv, LocalInv, Ev
  <2>3. ASSUME NEW x \in OtherCopies(q)' PROVE x.messageTs # Ev(q)
    BY <1>1, <1>2, <2>1, <2>2 DEF Showing, Placed
  <2>4. Inst(q)' = Inst(q) /\ Ev(q)' = Ev(q)
    BY <2>1 DEF Inst, Ev
  <2>5. QED
    BY <2>1, <2>3, <2>4, ReadsFrame DEF Showing, ShownAs
<1>6. ASSUME NEW q \in Workers, NEW w \in WorkflowIds, Saved(q)', Waiting(w)'
      PROVE  wfTable[w].messageTs # Inst(q)'.messageTs
  <2>1. worker'[q] = worker[q]
    BY <1>6, ReadsFrame DEF Saved
  <2>2. Saved(q) /\ Waiting(w) /\ Inst(q)' = Inst(q)
    BY <1>6, <2>1, ReadsFrame DEF Saved, Waiting, Inst
  <2>3. QED
    BY <1>0, <2>2 DEF WaitInv
<1> QED
  BY <1>3, <1>4, <1>5, <1>6, ReadsFrame DEF WaitInv

LEMMA ReadsKeepReleaseInv ==
  ASSUME BarlowInv, NEW c, Reads(c)
  PROVE  ReleaseInv'
<1>0. ReleaseInv /\ TypeInv /\ IdInv
  BY BarlowInvGives
<1>1. ASSUME NEW p \in Workers, worker'[p].pc = "idle" PROVE Ev(p)' = None
  BY <1>0, <1>1, ReadsFrame DEF ReleaseInv, Ev
<1>2. ASSUME NEW p \in Workers PROVE StartedBy(p)' /\ NewRuns(p)'
  <2>1. CASE worker'[p] = worker[p]
    BY <1>0, <2>1, ReadsFrame
    DEF ReleaseInv, StartedBy, NewRuns, Held, Fresh, Inst, Ev
  <2>2. CASE ReadBy(p, c)
    BY <2>2, ReadsFrame
    DEF ReadBy, StartedBy, NewRuns, Held, Fresh, WithInstance, ResumeActions,
        Decision
  <2>3. QED
    BY <2>1, <2>2 DEF Reads
<1>3. ASSUME NEW a \in Invocations, drop'[a].pc = "save"
      PROVE  drop'[a].inst.id = drop'[a].wf
  BY <1>0, <1>3 DEF Reads, DropReads, ReleaseInv
<1>4. ASSUME NEW k \in Keys, NEW w \in WorkflowIds, session'[k] = w,
             HasEnded(w)'
      PROVE  Excused(k, w)' \/ Releasing(w)'
  <2>1. session[k] = w /\ HasEnded(w)
    BY <1>4, ReadsFrame DEF HasEnded
  <2>2. wfTable[w] \in Copies /\ wfTable[w].id = w
    BY <1>0, <2>1, TableCopies DEF TypeInv, IdInv, HasEnded
  <2>3. ASSUME NEW d \in Events, Lost(d), OfSame(d, w) PROVE Excused(k, w)'
    <3>1. ASSUME NEW p \in Workers PROVE ~ Holds(p, d)'
      BY <2>3 DEF Reads, ReadBy, Lost, Holds, InTry, Ev
    <3>2. Lost(d)'
      BY <2>3, <3>1, ReadsFrame DEF Lost
    <3>3. ASSUME NEW x \in Copies', x.id = w
          PROVE  \E o \in Copies : o.id = x.id /\ o.key = x.key
      BY <1>0, <2>2, <3>3, ReadsCopies DEF FromOlder, Carried, Owned
    <3>4. OfSame(d, w)'
      BY <1>0, <2>3, <3>3, ReadsFrame, SameStays DEF EventsStay, Lost
    <3>5. QED
      BY <3>2, <3>4 DEF Excused
  <2>4. ASSUME NEW a \in Invocations
        PROVE  /\ drop[a].pc \in {"dead", "clear"} => drop'[a] = drop[a]
               /\ drop[a].pc # "ready" =>
                    /\ drop'[a].pc # "ready"
                    /\ drop'[a].wf = drop[a].wf /\ drop'[a].key = drop[a].key
    BY DEF Reads, DropReads
  <2>5. CASE Excused(k, w)
    BY <2>3, <2>4, <2>5 DEF Excused
  <2>6. CASE Releasing(w)
    <3>1. \A p \in Workers :
            worker[p].pc = "clearSession" => worker'[p] = worker[p]
      BY DEF Reads, ReadBy
    <3>2. QED
      BY <2>4, <2>6, <3>1 DEF Releasing, Inst
  <2>7. QED
    BY <1>0, <2>1, <2>5, <2>6 DEF ReleaseInv
<1> QED
  BY <1>1, <1>2, <1>3, <1>4 DEF ReleaseInv

LEMMA ReadsKeepOlderInv ==
  ASSUME BarlowInv, OlderInv, NEW c, Reads(c), older' \in {older, Nothing}
  PROVE  OlderInv'
<1>0. TypeInv
  BY BarlowInvGives
<1>1. older' \in [WorkflowIds -> Instance \union {None}]
  BY DEF OlderInv, Nothing
<1>2. ASSUME NEW w \in WorkflowIds, older'[w] # None
      PROVE  older'[w].id = w /\ Carried(older[w])'
  <2>1. PICK o \in Instance : o = older'[w]
    BY <1>1, <1>2
  <2>2. o = older[w] /\ o.id = w /\ Carried(o)
    BY <1>2, <2>1 DEF OlderInv, Nothing
  <2>3. Settled(o)'
    BY <2>2, ReadsFrame DEF Carried, Settled, Recorded
  <2>4. Placed(o)'
    BY <2>2, ReadsFrame DEF Carried, Placed, Ev
  <2>5. ASSUME NEW x \in Copies', x.id = o.id PROVE x.key = o.key
    BY <1>0, <2>2, <2>5, ReadsCopies DEF Carried, Owned, FromOlder
  <2>6. Owned(o)'
    BY <2>2, <2>5, ReadsFrame DEF Carried, Owned
  <2>7. Drafted(o.draft, o.id)'
    BY <2>2, ReadsFrame DEF Carried, Drafted
  <2>8. QED
    BY <2>1, <2>2, <2>3, <2>4, <2>6, <2>7
    DEF Carried, Settled, Placed, Owned, Drafted, Recorded
<1> QED
  BY <1>1, <1>2 DEF OlderInv

LEMMA ReadsKeepStaleInv ==
  ASSUME StaleInv, NEW c, Reads(c), older' \in {older, Nothing}
  PROVE  StaleInv'
<1>1. BarlowInv /\ OlderInv
  BY DEF StaleInv
<1>2. BarlowInv'
  BY <1>1, ReadsKeepFilingInvs, ReadsKeepStepInvs, ReadsKeepOwnInv,
     ReadsKeepFreshInv, ReadsKeepDoneInv, ReadsKeepHumanInv, ReadsKeepWaitInv,
     ReadsKeepReleaseInv DEF BarlowInv, RecordInvs
<1> QED
  BY <1>1, <1>2, ReadsKeepOlderInv DEF StaleInv

(* what it takes from the reads that may still miss a write *)
Uses ==
  /\ stale > 0
  /\ stale' = stale - 1
  /\ older' = IF stale = 1 THEN Nothing ELSE older

(***************************************************************************)
(* Every step of StaleReads: one of Barlow, or a read.                     *)
(***************************************************************************)
LEMMA StaleSteps ==
  ASSUME StaleInv, [StaleNext]_staleVars
  PROVE  \/ [Next]_vars /\ Keep
         \/ \E c : Reads(c) /\ Uses
<1>1. CASE Next /\ Keep
  BY <1>1
<1>2. CASE UNCHANGED staleVars
  BY <1>2 DEF staleVars, vars, tables, Keep, StaleInv, OlderInv
<1>3. ASSUME NEW p \in Workers, LoadMissing(p)
      PROVE  \E c : Reads(c) /\ Uses
  <2>1. Uses
    BY <1>3 DEF LoadMissing, Missed, Uses
  <2>2. QED
    BY <1>3, <2>1, LoadMissingReads
<1>4. ASSUME NEW a \in Invocations, DropLoadMissing(a)
      PROVE  \E c : Reads(c) /\ Uses
  <2>1. Uses
    BY <1>4 DEF DropLoadMissing, Missed, Uses
  <2>2. QED
    BY <1>4, <2>1, DropLoadMissingReads
<1> QED
  BY <1>1, <1>2, <1>3, <1>4 DEF StaleNext

LEMMA StaleInvHolds == StaleSpec => []StaleInv
<1>1. StaleInit => StaleInv
  BY InitBarlowInv DEF StaleInit, StaleInv, OlderInv, Nothing
<1>2. StaleInv /\ [StaleNext]_staleVars => StaleInv'
  BY StaleSteps, NextKeepsStaleInv, ReadsKeepStaleInv DEF Uses
<1> QED
  BY <1>1, <1>2, PTL DEF StaleSpec

-----------------------------------------------------------------------------
(* What follows for the users, when reads may miss the last write.         *)

(***************************************************************************)
(* The state has its type, stale reads or not: no handler reads a record   *)
(* that is not there (workflow_store.get, workflow_runtime.resume).        *)
(***************************************************************************)
THEOREM StaleTypes == StaleSpec => []TypeOK
<1>1. StaleInv => TypeOK
  BY BarlowInvGives DEF StaleInv
<1> QED
  BY <1>1, StaleInvHolds, PTL

(***************************************************************************)
(* A press of accept files at most one issue, although the worker may      *)
(* resume an older version of the workflow (step_worker_handler._process:  *)
(* what guards the POST is the conditional put of try_acquire, which a     *)
(* stale read does not get around).                                        *)
(***************************************************************************)
THEOREM StaleOneIssuePerEvent == StaleSpec => []OneIssuePerEvent
<1>1. StaleInv => OneIssuePerEvent
  BY BarlowInvGives DEF StaleInv, OnceInv
<1> QED
  BY <1>1, StaleInvHolds, PTL

(***************************************************************************)
(* No issue without the human, although the draft filed may be that of an  *)
(* older version of the workflow: it is still one the user asked for, and  *)
(* a draft was shown and accepted (create_github_issue.execute files what  *)
(* workflow_store.get gave resume).                                        *)
(***************************************************************************)
THEOREM StaleHumansDecide == StaleSpec => []HumanInTheLoop
<1>1. StaleInv => HumanInTheLoop
  BY BarlowInvGives, HumanInvDecides DEF StaleInv
<1> QED
  BY <1>1, StaleInvHolds, PTL

(***************************************************************************)
(* A workflow stored as COMPLETED is what its record says, although a      *)
(* worker or a drop that read an older version saves it again over newer   *)
(* ones (workflow_store.save is unconditional).                            *)
(***************************************************************************)
THEOREM StaleCompletedMeansFiled == StaleSpec => []CompletedAsRecorded
<1>1. StaleInv => CompletedAsRecorded
  BY BarlowInvGives, DoneInvCompletes DEF StaleInv, BarlowInv, RecordInvs
<1> QED
  BY <1>1, StaleInvHolds, PTL

(***************************************************************************)
(* No dead end: whatever version is read and saved back, a workflow stored *)
(* as WAITING has a message whose buttons work, that asks for its step and *)
(* shows its draft (_execute_until_wait, handle_drop).                     *)
(***************************************************************************)
THEOREM StaleWaitingHasButtons == StaleSpec => []WaitingIsAnswerable
<1>1. StaleInv => WaitingIsAnswerable
  BY BarlowInvGives, WaitInvAnswers DEF StaleInv, BarlowInv, RecordInvs
<1> QED
  BY <1>1, StaleInvHolds, PTL

(***************************************************************************)
(* A session names a workflow of the same channel and user: no version of  *)
(* a workflow that is read late belongs to somebody else                   *)
(* (workflow_runtime.start, slash.handle_drop).                            *)
(***************************************************************************)
THEOREM StaleSessionsNameTheirOwn == StaleSpec => []SessionNamesOwnWorkflow
<1>1. StaleInv => SessionNamesOwnWorkflow
  BY BarlowInvGives, OwnInvNamesOwn DEF StaleInv, BarlowInv, RecordInvs
<1> QED
  BY <1>1, StaleInvHolds, PTL

(***************************************************************************)
(* Once nothing runs, no session names a workflow that has ended, unless   *)
(* an invocation died or raised or another user dropped it, also when a    *)
(* drop or a resume read a version from before the workflow ended          *)
(* (_execute_until_wait, slash.handle_drop).                               *)
(***************************************************************************)
THEOREM StaleEndedAreReleased == StaleSpec => []SessionReleased
<1>1. StaleInv => SessionReleased
  BY ReleaseInvReleases DEF StaleInv, BarlowInv
<1> QED
  BY <1>1, StaleInvHolds, PTL

(***************************************************************************)
(* A drop that has returned has freed its user, whatever state classes its *)
(* process has registered, also when it read an older version of the       *)
(* workflow, or none at all and so saved nothing; and a drop that raises   *)
(* does so for want of a state class (slash.handle_drop).                  *)
(***************************************************************************)
THEOREM StaleDropsFreeTheUser == StaleSpec => []DroppedIsFreed
<1>1. StaleInit => DroppedIsFreed
  BY DEF StaleInit, Init, DroppedIsFreed, NotInvoked
<1>2. StaleInv /\ DroppedIsFreed /\ [StaleNext]_staleVars
        => DroppedIsFreed'
  <2> SUFFICES ASSUME StaleInv, DroppedIsFreed, [StaleNext]_staleVars
               PROVE  DroppedIsFreed'
    OBVIOUS
  <2>1. CASE [Next]_vars
    BY <2>1, NextKeepsFreed DEF StaleInv, BarlowInv, RecordInvs
  <2>2. ASSUME NEW c, Reads(c) PROVE DroppedIsFreed'
    BY <2>2, ReadsFrame DEF DroppedIsFreed
  <2>3. QED
    BY <2>1, <2>2, StaleSteps
<1> QED
  BY <1>1, <1>2, StaleInvHolds, PTL DEF StaleSpec

(***************************************************************************)
(* Barlow with reads that miss writes still implements IssueFiling: such a *)
(* read proposes, accepts and files nothing, and what the worker does with *)
(* an older version is what it might do with any (workflow_store.get,      *)
(* create_github_issue.execute).                                           *)
(***************************************************************************)
THEOREM StaleFilesAsPromised == StaleSpec => FilesAsPromised
<1>1. StaleInit => Filing!Init
  BY DEF StaleInit, Init, Filing!Init, Proposed, Accepted, FiledIssues
<1>2. StaleInv /\ [StaleNext]_staleVars => [Filing!Next]_(Filing!vars)
  <2> SUFFICES ASSUME StaleInv, [StaleNext]_staleVars
               PROVE  [Filing!Next]_(Filing!vars)
    OBVIOUS
  <2>1. CASE [Next]_vars
    BY <2>1, NextFiles DEF StaleInv, BarlowInv, RecordInvs
  <2>2. ASSUME NEW c, Reads(c) PROVE [Filing!Next]_(Filing!vars)
    BY <2>2, ReadsFrame, Unseen
  <2>3. QED
    BY <2>1, <2>2, StaleSteps
<1> QED
  BY <1>1, <1>2, StaleInvHolds, PTL DEF StaleSpec, FilesAsPromised, Filing!Spec

-----------------------------------------------------------------------------
(* What is marked done is done, also when reads miss the last write.       *)

(***************************************************************************)
(* A workflow nobody has saved but start() is Original: no copy has left   *)
(* the first step, no message is about it, and nobody was asked anything.  *)
(* Until a second save there is no older version, and no event either that *)
(* would load one; from then on a read that misses the last write finds a  *)
(* version, of the same type.                                              *)
(***************************************************************************)
Original(w) ==
  /\ \A c \in Copies : c.id = w => c.step = FIRST_STEP
  /\ \A m \in Events : message[m] # None => message[m].wf # w
  /\ w \notin modal
  /\ \A d \in Events :
       event[d] # None /\ event[d].type # "pipeline_start" => event[d].wf # w

KeptInv ==
  /\ stale \in Nat
  /\ \A w \in WorkflowIds :
       older[w] # None => wfTable[w] # None /\ older[w].wtype = wfTable[w].wtype
  /\ stale > 0 => \A w \in WorkflowIds : older[w] # None \/ Original(w)

LEMMA NewAreOriginal ==
  ASSUME TypeInv, IdInv, OwnInv, FeatInv, NEW w \in WorkflowIds,
         wfTable[w] = None
  PROVE  w \notin created /\ Original(w)
<1>1. w \notin created /\ ~ Feat(w)
  BY DEF FeatInv, Feat
<1>2. \A c \in Copies : c.id # w
  BY <1>1 DEF OwnInv
<1> QED
  BY <1>1, <1>2 DEF FeatInv, Original

LEMMA WorkerKeepsOriginal ==
  ASSUME TypeInv, IdInv, OwnInv, NEW p \in Workers, Does(p),
         NEW w \in WorkflowIds, Original(w),
         wfTable'[w] = wfTable[w] \/ w \notin created
  PROVE  Original(w)'
<1>1. ASSUME NEW c \in Copies', c.id = w
      PROVE  c.step = FIRST_STEP
  <2>1. CASE c \in Copies
    BY <1>1, <2>1 DEF Original
  <2>2. CASE Held(p)' /\ c = Inst(p)'
    <3>1. CASE Starts(p) \/ Saves(p) \/ Notifies(p)
      <4>1. c \in Copies
        BY <2>2, <3>1, HeldCopies
        DEF Starts, Saves, Notifies, Has, Inst, Held, WithInstance
      <4>2. QED
        BY <1>1, <4>1 DEF Original
    <3>2. CASE \E i \in Instance : Creates(p, i)
      BY <2>2, <3>2 DEF Creates, Has, Inst
    <3>3. ASSUME NEW i \in Instance, Loads(p, i)
          PROVE  FALSE
      <4>1. /\ event[Ev(p)].wf = w /\ event[Ev(p)].type \in ResumeActions
            /\ worker[p].pc = "load"
        BY <1>1, <2>2, <3>3 DEF Loads, Has, Inst
      <4>2. Ev(p) \in Events /\ event[Ev(p)] # None
        BY <4>1 DEF TypeInv, WorkerInv, LocalInv, Ev
      <4>3. event[Ev(p)].type # "pipeline_start"
        BY <4>1 DEF TypeInv, WorkerInv, LocalInv, Ev
      <4>4. QED
        BY <4>1, <4>2, <4>3 DEF Original
    <3>4. ASSUME NEW i \in Instance, Thinks(p, i)
          PROVE  FALSE
      <4>1. /\ c = i /\ i.id = Inst(p).id /\ i.step = OnContinue[Inst(p).step]
            /\ Held(p) /\ Save(i)
        BY <2>2, <3>4 DEF Thinks, Has, Inst, Held, WithInstance
      <4>2. Inst(p).step = FIRST_STEP /\ w \in created
        BY <1>1, <4>1, HeldCopies DEF Original, OwnInv
      <4>3. i.step # FIRST_STEP
        BY <4>1, <4>2 DEF OnContinue, FIRST_STEP, ContinueSteps
      <4>4. wfTable'[w] = i
        BY <1>1, <4>1, SaveType DEF TypeInv, TypeOK
      <4>5. i \in Copies
        BY <4>2, <4>4 DEF Copies
      <4>6. QED
        BY <1>1, <4>1, <4>3, <4>5 DEF Original
    <3>5. ASSUME NEW i \in Instance,
                 Shows(p, i) \/ Stops(p, i) \/ Files(p, i) \/ Relates(p, i)
          PROVE  c.step = FIRST_STEP
      <4>1. c = i /\ i.id = Inst(p).id /\ i.step = Inst(p).step /\ Held(p)
        BY <2>2, <3>5
        DEF Shows, Stops, Files, Relates, Like, Has, Inst, Held, WithInstance
      <4>2. QED
        BY <1>1, <4>1, HeldCopies DEF Original
    <3>6. QED
      BY <2>2, <3>1, <3>2, <3>3, <3>4, <3>5 DEF Does, Quits
  <2>3. QED
    BY <2>1, <2>2, NewCopies
<1>2. ASSUME NEW m \in Events, message'[m] # None
      PROVE  message'[m].wf # w
  <2>1. ASSUME NEW i \in Instance, Shows(p, i)
        PROVE  i.id # w
    <3>1. /\ i.id = Inst(p).id /\ i.step = Inst(p).step /\ Held(p)
          /\ i.step \in WaitSteps
      BY <2>1 DEF Shows, Like, Held, WithInstance
    <3>2. Inst(p).id = w => Inst(p).step = FIRST_STEP
      BY <3>1, HeldCopies DEF Original
    <3>3. QED
      BY <3>1, <3>2 DEF WaitSteps, FIRST_STEP
  <2>2. QED
    BY <1>2, <2>1, MessagesTell DEF Original
<1>3. event' = event /\ modal' = modal
  BY DEF Does
<1> QED
  BY <1>1, <1>2, <1>3 DEF Original

LEMMA OthersKeepOriginal ==
  ASSUME TypeInv, NEW w \in WorkflowIds, Original(w),
         Asks \/ (\E a \in Invocations : Drops(a)) \/ Expires
  PROVE  Original(w)'
<1>1. ASSUME NEW c \in Copies', c.id = w
      PROVE  c.step = FIRST_STEP
  <2>1. \E o \in Copies : o.id = c.id /\ o.step = c.step
    BY OldCopies, DropCopies DEF Like
  <2>2. QED
    BY <1>1, <2>1 DEF Original
<1>2. message' = message
  BY DEF Asks, Drops, Expires
<1>3. \A m \in Events : ~ Proposes(m, w)
  BY DEF Original, Proposes
<1>4. w \notin modal'
  BY <1>3 DEF Asks, Drops, Expires, Original, Proposes
<1>5. ASSUME NEW d \in Events, event'[d] # None,
             event'[d].type # "pipeline_start"
      PROVE  event'[d].wf # w
  <2>1. CASE event'[d] = event[d]
    BY <1>5, <2>1 DEF Original
  <2>2. CASE event'[d] # event[d]
    <3>1. PICK e \in Event : Answers(e) /\ event'[d] = e
      BY <2>2 DEF Asks, Drops, Expires, NewEvent, TypeInv, TypeOK
    <3>2. QED
      BY <1>3, <1>5, <3>1 DEF Answers, Original
  <2>3. QED
    BY <2>1, <2>2
<1> QED
  BY <1>1, <1>2, <1>4, <1>5 DEF Original

LEMMA NextKeepsKeptInv ==
  ASSUME BarlowInv, OlderInv, FeatInv, KeptInv, TypesStay, [Next]_vars, Keep
  PROVE  KeptInv'
<1>0. TypeInv /\ TypeOK /\ IdInv /\ OwnInv
  BY BarlowInvGives
<1>1. stale' = stale
  BY DEF Keep
<1>2. ASSUME NEW w \in WorkflowIds
      PROVE  older'[w] = IF stale = 0 \/ wfTable'[w] = wfTable[w]
                           THEN older[w] ELSE wfTable[w]
  BY DEF Keep
<1>3. ASSUME NEW w \in WorkflowIds, older'[w] # None
      PROVE  wfTable'[w] # None /\ older'[w].wtype = wfTable'[w].wtype
  <2>1. wfTable[w] # None /\ older'[w].wtype = wfTable[w].wtype
    BY <1>2, <1>3 DEF KeptInv
  <2>2. QED
    BY <2>1 DEF TypesStay
<1>4. ASSUME NEW w \in WorkflowIds, stale > 0, older'[w] = None
      PROVE  Original(w)'
  <2>1. \/ wfTable[w] = None
        \/ wfTable'[w] = wfTable[w] /\ older[w] = None
    BY <1>2, <1>4 DEF KeptInv
  <2>2. Original(w) /\ (wfTable'[w] = wfTable[w] \/ w \notin created)
    BY <1>0, <1>4, <2>1, NewAreOriginal DEF KeptInv
  <2>3. QED
    BY <1>0, <2>2, NextDoes, WorkerKeepsOriginal, OthersKeepOriginal
<1> QED
  BY <1>1, <1>3, <1>4 DEF KeptInv

(***************************************************************************)
(* A resume whose read misses the last write never returns at once: the    *)
(* workflow of a press has an older version, it too is of type feat, and   *)
(* so names a step for the press.                                          *)
(***************************************************************************)
LEMMA ReadByResumes ==
  ASSUME TypeInv, FeatInv, KeptInv, NEW p \in Workers, NEW c, ReadBy(p, c)
  PROVE  /\ worker'[p].pc = "saveResumed" /\ Inst(p)' = c
         /\ Ev(p)' = Ev(p) /\ Ev(p) \in Events
         /\ event[Ev(p)].type \in ResumeActions
         /\ c.step = RESUME_MAP[event[Ev(p)].type]
<1>1. /\ Ev(p) \in Events /\ event[Ev(p)] # None
      /\ event[Ev(p)].type # "pipeline_start"
  BY DEF ReadBy, TypeInv, WorkerInv, LocalInv, Ev
<1> DEFINE e == event[Ev(p)]
<1>2. e.wf \in WorkflowIds /\ e.type \in ResumeActions
  BY <1>1 DEF TypeInv, TypeOK, EventInv, EventOf, Event
<1>3. Feat(e.wf) /\ ~ Original(e.wf)
  BY <1>1 DEF FeatInv, Original
<1> HIDE DEF e
<1>4. ASSUME stale > 0
      PROVE  Resumable(older[e.wf], e.type)
  <2>1. older[e.wf] # None
    BY <1>2, <1>3, <1>4 DEF KeptInv
  <2>2. older[e.wf].wtype = "feat"
    BY <1>2, <1>3, <2>1 DEF KeptInv, Feat
  <2>3. QED
    BY <1>2, <2>1, <2>2 DEF Resumable, HasResume
<1> QED
  BY <1>1, <1>4 DEF ReadBy, e

LEMMA ReadsKeepEffects ==
  ASSUME TypeInv, NoExpiry, FeatInv, EffectInv, KeptInv, NEW c, Reads(c), Uses
  PROVE  NoExpiry' /\ FeatInv' /\ EffectInv' /\ KeptInv'
<1>0. /\ EventsStay /\ ProposalsStay /\ IssuesStay /\ NoExpiry'
  BY ReadsFrame DEF EventsStay, ProposalsStay, IssuesStay, NoExpiry
<1>1. FromOlder(c) => /\ c.id \in WorkflowIds /\ wfTable[c.id] # None
                      /\ c.wtype = wfTable[c.id].wtype
                      /\ older[c.id] # None
  BY DEF FromOlder, KeptInv, Instance
<1>2. FeatInv'
  <2>1. ASSUME NEW x \in Copies' PROVE x.wtype = wfTable'[x.id].wtype
    BY <1>1, ReadsCopies, ReadsFrame DEF FeatInv
  <2>2. \A w \in WorkflowIds : Feat(w)' = Feat(w)
    BY ReadsFrame DEF Feat
  <2>3. /\ \A w \in created' : wfTable'[w] # None
        /\ \A m \in Events : message'[m] # None => Feat(message[m].wf)'
        /\ \A w \in modal' : Feat(w)'
    BY ReadsFrame DEF FeatInv, Feat
  <2>4. \A d \in Events :
          event'[d] # None /\ event'[d].type # "pipeline_start"
            => Feat(event[d].wf)'
    BY ReadsFrame DEF FeatInv, Feat
  <2>5. QED
    BY <2>1, <2>3, <2>4 DEF FeatInv
<1>3. ASSUME NEW p \in Workers PROVE OnTheWay(p)'
  <2>1. CASE worker'[p] = worker[p]
    BY <1>0, <2>1, OthersStayOnTheWay DEF EffectInv
  <2>2. CASE ReadBy(p, c)
    <3>1. PICK type \in ResumeActions :
            /\ worker'[p].pc = "saveResumed" /\ Inst(p)' = c
            /\ event'[Ev(p)'].type = type /\ c.step = RESUME_MAP[type]
      BY <2>2, ReadByResumes, ReadsFrame
    <3>2. /\ type = "accept" => c.step = "create_github_issue"
          /\ type \in Drafting => c.step \in {"generate_issue_draft",
                                              "regenerate_issue_draft"}
      BY <3>1 DEF RESUME_MAP, ResumeActions, Drafting, Decision
    <3>3. QED
      BY <3>1, <3>2 DEF OnTheWay, Towards, Acted, AfterPost
  <2>3. QED
    BY <2>1, <2>2 DEF Reads
<1>4. ASSUME NEW d \in Events, pending'[d] = "DONE"
      PROVE  event'[d] # None /\ Effect(d)'
  BY <1>0, <1>4, EffectsStay, ReadsFrame DEF EffectInv, EventsStay
<1>5. EffectInv'
  BY <1>3, <1>4 DEF EffectInv
<1>6. ASSUME NEW w \in WorkflowIds, Original(w), older[w] = None
      PROVE  Original(w)'
  <2>1. \A x \in Copies' : x.id = w => x.step = FIRST_STEP
    BY <1>1, <1>6, ReadsCopies DEF Original
  <2>2. QED
    BY <1>6, <2>1, ReadsFrame DEF Original
<1>7. KeptInv'
  <2>1. stale' \in Nat /\ stale' = stale - 1
    BY DEF Uses, KeptInv
  <2>2. CASE stale = 1
    <3>1. older' = Nothing /\ stale' = 0
      BY <2>1, <2>2 DEF Uses
    <3>2. QED
      BY <2>1, <3>1 DEF KeptInv, Nothing
  <2>3. CASE stale # 1
    <3>1. older' = older /\ stale > 0 /\ wfTable' = wfTable
      BY <2>3, ReadsFrame DEF Uses
    <3>2. QED
      BY <1>6, <2>1, <3>1 DEF KeptInv
  <2>4. QED
    BY <2>2, <2>3
<1> QED
  BY <1>0, <1>2, <1>5, <1>7

StaleEffectsInv ==
  Budget["expire"] = 0 => NoExpiry /\ FeatInv /\ EffectInv /\ KeptInv

LEMMA StaleEffectsInvHolds == StaleSpec => []StaleEffectsInv
<1>1. StaleInit => StaleEffectsInv
  <2> SUFFICES ASSUME StaleInit, Budget["expire"] = 0
               PROVE  NoExpiry /\ FeatInv /\ EffectInv /\ KeptInv
    BY DEF StaleEffectsInv
  <2>1. BarlowInv /\ NoExpiry /\ FeatInv /\ EffectInv
    BY InitBarlowInv, InitEffectsInv DEF StaleInit, EffectsInv
  <2>2. \A w \in WorkflowIds : wfTable[w] = None /\ older[w] = None
    BY DEF StaleInit, Init, Nothing
  <2>3. \A w \in WorkflowIds : Original(w)
    BY <2>1, <2>2, BarlowInvGives, NewAreOriginal
  <2>4. KeptInv
    BY <2>2, <2>3, StaleAssumption DEF StaleInit, KeptInv
  <2>5. QED
    BY <2>1, <2>4
<1>2. StaleInv /\ StaleInv' /\ StaleEffectsInv /\ [StaleNext]_staleVars
        => StaleEffectsInv'
  <2> SUFFICES ASSUME StaleInv, StaleInv', [StaleNext]_staleVars,
                      NoExpiry, FeatInv, EffectInv, KeptInv
               PROVE  NoExpiry' /\ FeatInv' /\ EffectInv' /\ KeptInv'
    BY DEF StaleEffectsInv
  <2>0. /\ BarlowInv /\ OlderInv /\ FilingInvs /\ FilingInvs' /\ OwnInv
        /\ TypeInv
    BY BarlowInvGives DEF StaleInv, BarlowInv, RecordInvs
  <2>1. CASE [Next]_vars /\ Keep
    <3>1. NoExpiry' /\ FeatInv' /\ EffectInv' /\ TypesStay
      BY <2>0, <2>1, NextKeepsEffects
    <3>2. KeptInv'
      BY <2>0, <2>1, <3>1, NextKeepsKeptInv
    <3>3. QED
      BY <3>1, <3>2
  <2>2. CASE \E c : Reads(c) /\ Uses
    BY <2>0, <2>2, ReadsKeepEffects
  <2>3. QED
    BY <2>1, <2>2, StaleSteps
<1> QED
  BY <1>1, <1>2, StaleInvHolds, PTL DEF StaleSpec

(***************************************************************************)
(* What is marked done is done, stale reads or not: where no record        *)
(* expires, an accept marked DONE has filed its issue, and a reject or a   *)
(* decision has its draft on Slack.  resume() returns at once, for its     *)
(* event to be marked DONE, on a workflow it does not find; but no button  *)
(* exists before a workflow's second save, so a get that misses the last   *)
(* write still finds one (workflow_runtime.resume, workflow_store.get).    *)
(***************************************************************************)
THEOREM StalePressesTakeEffect == StaleSpec => []DoneIsDone
<1>1. StaleEffectsInv => DoneIsDone
  BY DEF StaleEffectsInv, EffectInv, Effect, DoneIsDone
<1> QED
  BY <1>1, StaleEffectsInvHolds, PTL

=============================================================================
