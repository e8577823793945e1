------------------------- MODULE AgentServers_proofs -------------------------
(***************************************************************************)
(* What GitHubMCPFactory guarantees for any number of events: in the       *)
(* Lambda, where events follow one another, that agents run with a session *)
(* and that none is left open; in the local server, that a dead name is    *)
(* cleared by the disconnect that made it so.                              *)
(***************************************************************************)
EXTENDS AgentServers, TLAPS

(***************************************************************************)
(* A task that connects or runs has a server to do it with.                *)
(***************************************************************************)
TaskInv ==
  \A t \in Tasks : task[t].pc \in {"connect", "run"} => task[t].todo # <<>>

TypeInv == TypeOK /\ TaskInv

LEMMA AgentsType == \A kind \in DOMAIN AgentsOf : AgentsOf[kind] \in Seq(Servers)
<1>1. /\ <<>> \in Seq(Servers)
      /\ <<"read_files">> \in Seq(Servers)
      /\ <<"read_tree", "read_issues">> \in Seq(Servers)
  BY DEF Servers
<1>2. /\ DOMAIN AgentsOf = {"start", "draft", "end", "ignored"}
      /\ AgentsOf["start"] = <<"read_tree", "read_issues">>
      /\ AgentsOf["draft"] = <<"read_files">>
      /\ AgentsOf["end"] = <<>>
      /\ AgentsOf["ignored"] = <<>>
  BY DEF AgentsOf
<1> QED
  BY <1>1, <1>2

LEMMA EmptyTodo == <<>> \in Seq(Servers)
OBVIOUS

LEMMA HeadType ==
  ASSUME TypeInv, NEW t \in Tasks, task[t].pc \in {"connect", "run"}
  PROVE  task[t].todo \in Seq(Servers) /\ Head(task[t].todo) \in Servers
<1>1. task[t].todo \in Seq(Servers) /\ task[t].todo # <<>>
  BY DEF TypeInv, TypeOK, TaskInv, Task
<1> QED
  BY <1>1

LEMMA TypeStep == TypeInv /\ [Next]_vars => TypeInv'
<1> SUFFICES ASSUME TypeInv, [Next]_vars PROVE TypeInv'
  OBVIOUS
<1> USE DEF TypeInv, TypeOK, TaskInv, Task, Pcs
<1>0. concurrent' \in BOOLEAN /\ faults' \subseteq Faults
  BY DEF Next, vars, mode
<1> USE <1>0
<1>1. ASSUME NEW t \in Tasks, NEW kind \in DOMAIN AgentsOf, Begin(t, kind)
      PROVE  TypeInv'
  <2>1. CASE kind = "ignored"
    <3>1. Disconnect(t)
      BY <1>1, <2>1 DEF Begin
    <3>2. QED
      BY <3>1 DEF Disconnect
  <2>2. CASE kind # "ignored"
    <3>1. Build(t, AgentsOf[kind])
      BY <1>1, <2>2 DEF Begin
    <3>2. QED
      BY <3>1, AgentsType DEF Build, Goto
  <2>3. QED
    BY <2>1, <2>2
<1>2. ASSUME NEW t \in Tasks, Connected(t)
      PROVE  TypeInv'
  <2>1. Head(task[t].todo) \in Servers /\ task[t].todo \in Seq(Servers)
    BY <1>2, HeadType DEF Connected
  <2>2. QED
    BY <1>2, <2>1 DEF Connected, Goto
<1>3. ASSUME NEW t \in Tasks, RunEnds(t)
      PROVE  TypeInv'
  <2>1. Tail(task[t].todo) \in Seq(Servers)
    BY <1>3 DEF RunEnds
  <2>2. QED
    BY <1>3, <2>1 DEF RunEnds, Build, Goto
<1>4. ASSUME NEW t \in Tasks, CallEnds(t)
      PROVE  TypeInv'
  BY <1>4 DEF CallEnds, Disconnect
<1>5. ASSUME NEW t \in Tasks, ConnectFails(t) \/ RunFails(t)
      PROVE  TypeInv'
  <2>1. /\ connected' \subseteq Servers /\ up' \subseteq Servers
        /\ Goto(t, "call", <<>>)
    BY <1>5 DEF ConnectFails, RunFails
  <2>2. QED
    BY <2>1, EmptyTodo DEF Goto
<1>6. ASSUME NEW t \in Tasks, CleanUp(t)
      PROVE  TypeInv'
  <2>1. PICK s \in task[t].cleaning :
          task' = [task EXCEPT ![t] = [task[t] EXCEPT
                     !.pc = "cleaned", !.cleaning = task[t].cleaning \ {s}]]
    BY <1>6 DEF CleanUp
  <2>2. connected' \subseteq Servers /\ up' \subseteq Servers
    BY <1>6 DEF CleanUp
  <2>3. QED
    BY <2>1, <2>2
<1>7. ASSUME NEW t \in Tasks, NextServer(t)
      PROVE  TypeInv'
  BY <1>7 DEF NextServer
<1>8. ASSUME NEW t \in Tasks, Clear(t)
      PROVE  TypeInv'
  <2>1. connected' \subseteq Servers /\ up' \subseteq Servers
        /\ Goto(t, "ended", <<>>)
    BY <1>8 DEF Clear
  <2>2. QED
    BY <2>1, EmptyTodo DEF Goto
<1>9. CASE UNCHANGED vars
  BY <1>9 DEF vars, mode
<1> QED
  BY <1>1, <1>2, <1>3, <1>4, <1>5, <1>6, <1>7, <1>8, <1>9 DEF Next, Step

LEMMA TypeInvHolds == Spec => []TypeInv
<1>1. Init => TypeInv
  BY DEF Init, TypeInv, TypeOK, TaskInv, Task, Pcs, Servers
<1> QED
  BY <1>1, TypeStep, PTL DEF Spec

(***************************************************************************)
(* The names and sessions of the factory and the state of every task keep  *)
(* their types, whatever connect, the agents and cleanup raise.            *)
(***************************************************************************)
THEOREM TypesHold == Spec => []TypeOK
<1>1. TypeInv => TypeOK
  BY DEF TypeInv
<1> QED
  BY <1>1, TypeInvHolds, PTL

-----------------------------------------------------------------------------
(***************************************************************************)
(* The Lambda.  Only one event is in progress.  Before its disconnect,     *)
(* _connected names exactly the open sessions; during it, the sessions     *)
(* still open are among those left to clean; between events there are none.*)
(***************************************************************************)
Disconnecting(t) == task[t].pc \in {"cleanup", "cleaned"}

SerialInv ==
  ~ concurrent =>
  /\ \A t, u \in Tasks : Active(t) /\ Active(u) => t = u
  /\ (\A t \in Tasks : ~ Active(t)) => connected = {}
  /\ (\A t \in Tasks : ~ Disconnecting(t)) => connected \subseteq up
  /\ \A t \in Tasks :
       /\ task[t].pc = "run" => Head(task[t].todo) \in connected
       /\ task[t].pc = "connect" => Head(task[t].todo) \notin connected

NoLeakInv ==
  ~ concurrent /\ "cleanup" \notin faults =>
  /\ (\A t \in Tasks : ~ Disconnecting(t)) => up \subseteq connected
  /\ \A t \in Tasks : Disconnecting(t) => up \subseteq task[t].cleaning

LEMMA SerialStep == TypeInv /\ SerialInv /\ [Next]_vars => SerialInv'
<1> SUFFICES ASSUME TypeInv, SerialInv, [Next]_vars, ~ concurrent
             PROVE  SerialInv'
  BY DEF Next, SerialInv, vars, mode
<1> USE DEF TypeInv, TypeOK, TaskInv, SerialInv, Active, Disconnecting
<1>1. ASSUME NEW t \in Tasks, NEW kind \in DOMAIN AgentsOf, Begin(t, kind)
      PROVE  SerialInv'
  BY <1>1 DEF Begin, Disconnect, Build, Goto
<1>2. ASSUME NEW t \in Tasks, Connected(t)
      PROVE  SerialInv'
  BY <1>2 DEF Connected, Goto
<1>3. ASSUME NEW t \in Tasks, RunEnds(t)
      PROVE  SerialInv'
  BY <1>3 DEF RunEnds, Build, Goto
<1>4. ASSUME NEW t \in Tasks, CallEnds(t)
      PROVE  SerialInv'
  BY <1>4 DEF CallEnds, Disconnect
<1>5. ASSUME NEW t \in Tasks, ConnectFails(t) \/ RunFails(t)
      PROVE  SerialInv'
  BY <1>5 DEF ConnectFails, RunFails, Goto
<1>6. ASSUME NEW t \in Tasks, CleanUp(t)
      PROVE  SerialInv'
  BY <1>6 DEF CleanUp
<1>7. ASSUME NEW t \in Tasks, NextServer(t) \/ Clear(t)
      PROVE  SerialInv'
  <2>1. CASE NextServer(t)
    BY <2>1 DEF NextServer, Task
  <2>2. CASE Clear(t)
    BY <2>2 DEF Clear, Goto
  <2>3. QED
    BY <1>7, <2>1, <2>2
<1>8. CASE UNCHANGED vars
  BY <1>8 DEF vars, mode
<1> QED
  BY <1>1, <1>2, <1>3, <1>4, <1>5, <1>6, <1>7, <1>8 DEF Next, Step

LEMMA SerialInvHolds == Spec => []SerialInv
<1>1. Init => SerialInv
  BY DEF Init, SerialInv, Active, Disconnecting
<1>2. TypeInv /\ SerialInv /\ [Next]_vars => SerialInv'
  BY SerialStep
<1> QED
  BY <1>1, <1>2, TypeInvHolds, PTL DEF Spec

(***************************************************************************)
(* In the Lambda every agent runs with a session, for any number of events *)
(* and whatever connect, the agents and cleanup raise.                     *)
(***************************************************************************)
THEOREM LambdaRunsConnected == Spec => []RunsConnected
<1>1. TypeInv /\ SerialInv => RunsConnected
  <2> SUFFICES ASSUME TypeInv, SerialInv, ~ concurrent,
                      NEW t \in Tasks, task[t].pc = "run"
               PROVE  Head(task[t].todo) \in up
    BY DEF RunsConnected
  <2>1. \A u \in Tasks : ~ Disconnecting(u)
    BY DEF SerialInv, Disconnecting, Active
  <2> QED
    BY <2>1 DEF SerialInv
<1>2. Spec => []SerialInv
  BY SerialInvHolds
<1> QED
  BY <1>1, <1>2, TypeInvHolds, PTL

LEMMA NoLeakStep ==
  TypeInv /\ SerialInv /\ NoLeakInv /\ [Next]_vars => NoLeakInv'
<1> SUFFICES ASSUME TypeInv, SerialInv, NoLeakInv, [Next]_vars,
                    ~ concurrent, "cleanup" \notin faults
             PROVE  NoLeakInv'
  BY DEF Next, NoLeakInv, vars, mode
<1> USE DEF TypeInv, TypeOK, TaskInv, SerialInv, NoLeakInv, Active,
            Disconnecting
<1>1. ASSUME NEW t \in Tasks, NEW kind \in DOMAIN AgentsOf, Begin(t, kind)
      PROVE  NoLeakInv'
  BY <1>1 DEF Begin, Disconnect, Build, Goto
<1>2. ASSUME NEW t \in Tasks, Connected(t)
      PROVE  NoLeakInv'
  BY <1>2 DEF Connected, Goto
<1>3. ASSUME NEW t \in Tasks, RunEnds(t)
      PROVE  NoLeakInv'
  BY <1>3 DEF RunEnds, Build, Goto
<1>4. ASSUME NEW t \in Tasks, CallEnds(t)
      PROVE  NoLeakInv'
  BY <1>4 DEF CallEnds, Disconnect
<1>5. ASSUME NEW t \in Tasks, ConnectFails(t) \/ RunFails(t)
      PROVE  NoLeakInv'
  BY <1>5 DEF ConnectFails, RunFails, Goto
<1>6. ASSUME NEW t \in Tasks, CleanUp(t)
      PROVE  NoLeakInv'
  BY <1>6 DEF CleanUp
<1>7. ASSUME NEW t \in Tasks, NextServer(t) \/ Clear(t)
      PROVE  NoLeakInv'
  <2>1. CASE NextServer(t)
    BY <2>1 DEF NextServer, Task
  <2>2. CASE Clear(t)
    BY <2>2 DEF Clear, Goto
  <2>3. QED
    BY <1>7, <2>1, <2>2
<1>8. CASE UNCHANGED vars
  BY <1>8 DEF vars, mode
<1> QED
  BY <1>1, <1>2, <1>3, <1>4, <1>5, <1>6, <1>7, <1>8 DEF Next, Step

(***************************************************************************)
(* In the Lambda no session outlives its event, unless a cleanup raised.   *)
(***************************************************************************)
THEOREM LambdaLeavesNothing == Spec => []NothingLeftConnected
<1>1. Init => NoLeakInv
  BY DEF Init, NoLeakInv, Disconnecting
<1>2. SerialInv /\ NoLeakInv => NothingLeftConnected
  BY DEF SerialInv, NoLeakInv, NothingLeftConnected, Disconnecting, Active
<1>3. TypeInv /\ SerialInv /\ NoLeakInv /\ [Next]_vars => NoLeakInv'
  BY NoLeakStep
<1>4. Spec => []SerialInv
  BY SerialInvHolds
<1> QED
  BY <1>1, <1>2, <1>3, <1>4, TypeInvHolds, PTL DEF Spec

-----------------------------------------------------------------------------
LEMMA StaleStep ==
  TypeInv /\ StaleNamesAreCleared /\ [Next]_vars => StaleNamesAreCleared'
<1> SUFFICES ASSUME TypeInv, StaleNamesAreCleared, [Next]_vars,
                    "connect" \notin faults
             PROVE  StaleNamesAreCleared'
  BY DEF Next, StaleNamesAreCleared, vars, mode
<1> USE DEF TypeInv, TypeOK, StaleNamesAreCleared
<1>1. ASSUME NEW t \in Tasks, NEW kind \in DOMAIN AgentsOf, Begin(t, kind)
      PROVE  StaleNamesAreCleared'
  BY <1>1 DEF Begin, Disconnect, Build, Goto
<1>2. ASSUME NEW t \in Tasks, Connected(t)
      PROVE  StaleNamesAreCleared'
  BY <1>2 DEF Connected, Goto
<1>3. ASSUME NEW t \in Tasks, RunEnds(t) \/ CallEnds(t)
      PROVE  StaleNamesAreCleared'
  BY <1>3 DEF RunEnds, CallEnds, Disconnect, Build, Goto
<1>4. ASSUME NEW t \in Tasks, ConnectFails(t) \/ RunFails(t)
      PROVE  StaleNamesAreCleared'
  BY <1>4 DEF ConnectFails, RunFails, Goto
<1>5. ASSUME NEW t \in Tasks, CleanUp(t)
      PROVE  StaleNamesAreCleared'
  BY <1>5 DEF CleanUp, Task
<1>6. ASSUME NEW t \in Tasks, NextServer(t) \/ Clear(t)
      PROVE  StaleNamesAreCleared'
  <2>1. CASE NextServer(t)
    BY <2>1 DEF NextServer, Task
  <2>2. CASE Clear(t)
    BY <2>2 DEF Clear, Goto
  <2>3. QED
    BY <1>6, <2>1, <2>2
<1>7. CASE UNCHANGED vars
  BY <1>7 DEF vars, mode
<1> QED
  BY <1>1, <1>2, <1>3, <1>4, <1>5, <1>6, <1>7 DEF Next, Step

(***************************************************************************)
(* Also with concurrent events, a name in _connected without a session is  *)
(* about to be cleared, as long as no connect fails.                       *)
(***************************************************************************)
THEOREM StaleNamesGo == Spec => []StaleNamesAreCleared
<1>1. Init => StaleNamesAreCleared
  BY DEF Init, StaleNamesAreCleared
<1>2. TypeInv /\ StaleNamesAreCleared /\ [Next]_vars => StaleNamesAreCleared'
  BY StaleStep
<1> QED
  BY <1>1, <1>2, TypeInvHolds, PTL DEF Spec
=============================================================================
