---------------------------- MODULE AgentServers ----------------------------
(***************************************************************************)
(* The MCP servers the agents read GitHub through: GitHubMCPFactory of     *)
(* agent/mcp.py, a class whose state outlives an event, used by the        *)
(* executor that builds an agent and by the finally of _process.           *)
(*                                                                         *)
(* A Worker Lambda handles its events one after the other; the local       *)
(* server makes an asyncio task of every event.  A task is interrupted     *)
(* only at an await that suspends: connect, the run of an agent, a Slack   *)
(* or GitHub call, cleanup.  The stores do not suspend in the local server,*)
(* and there is no other task in the Lambda; so the code between two of    *)
(* these is one action.                                                    *)
(***************************************************************************)
EXTENDS Naturals, Sequences

CONSTANT
  Tasks  \* the events, each processed once

VARIABLES
  concurrent,  \* whether this is the local server: a task per event
  faults,      \* the awaits that raise in this behaviour
  connected,   \* GitHubMCPFactory._connected
  up,          \* the servers that have a session
  task         \* the coroutine of each event

mode == <<concurrent, faults>>
vars == <<mode, connected, up, task>>

Faults == {"connect", "run", "cleanup"}

Servers == {"read_tree", "read_files", "read_issues"}

(***************************************************************************)
(* The servers of the agents an event runs, in order (executor._MAP along  *)
(* GRAPH): a request, a decision or reject that drafts, an event that runs *)
(* no agent but calls Slack or GitHub, and one that does neither.          *)
(***************************************************************************)
AgentsOf_Misspelt ==
  [start   |-> <<"read_tree", "read_issue">>,
   draft   |-> <<"read_files">>,
   end     |-> <<>>,
   ignored |-> <<>>]

AgentsOf ==
  [start   |-> <<"read_tree", "read_issues">>,
   draft   |-> <<"read_files">>,
   end     |-> <<>>,
   ignored |-> <<>>]

Pcs == {"ready", "connect", "run", "call", "cleanup", "cleaned", "ended"}

Task == [pc : Pcs, todo : Seq(Servers), cleaning : SUBSET Servers]

Active(t) == task[t].pc \notin {"ready", "ended"}

Goto(t, pc, todo) ==
  task' = [task EXCEPT ![t] = [pc |-> pc, todo |-> todo, cleaning |-> {}]]

Init ==
  /\ concurrent \in BOOLEAN
  /\ faults \in SUBSET Faults
  /\ connected = {}
  /\ up = {}
  /\ task = [t \in Tasks |-> [pc |-> "ready", todo |-> <<>>, cleaning |-> {}]]

-----------------------------------------------------------------------------
(***************************************************************************)
(* The next agent, or the Slack or GitHub call after the last.  _ensure    *)
(* awaits connect only if the name is not in _connected.                   *)
(***************************************************************************)
Build(t, todo) ==
  /\ Goto(t, IF todo = <<>> THEN "call"
             ELSE IF Head(todo) \in connected THEN "run" ELSE "connect", todo)
  /\ UNCHANGED <<connected, up>>

(* the finally clause; with nothing connected, clear() has no effect *)
Disconnect(t) ==
  /\ task' = [task EXCEPT ![t] =
                [pc |-> IF connected = {} THEN "ended" ELSE "cleanup",
                 todo |-> <<>>, cleaning |-> connected]]
  /\ UNCHANGED <<connected, up>>

Begin(t, kind) ==
  /\ task[t].pc = "ready"
  /\ concurrent \/ \A u \in Tasks : ~ Active(u)
  /\ IF kind = "ignored" THEN Disconnect(t) ELSE Build(t, AgentsOf[kind])

Connected_NotAdded(t) ==
  /\ task[t].pc = "connect"
  /\ up' = up \union {Head(task[t].todo)}
  /\ Goto(t, "run", task[t].todo)
  /\ UNCHANGED connected

Connected(t) ==
  /\ task[t].pc = "connect"
  /\ up' = up \union {Head(task[t].todo)}
  /\ connected' = connected \union {Head(task[t].todo)}
  /\ Goto(t, "run", task[t].todo)

RunEnds(t) == task[t].pc = "run" /\ Build(t, Tail(task[t].todo))

(* connect raises, after closing what it opened; the except branch of
   _process posts a notice *)
ConnectFails(t) ==
  /\ task[t].pc = "connect" /\ "connect" \in faults
  /\ up' = up \ {Head(task[t].todo)}
  /\ Goto(t, "call", <<>>)
  /\ UNCHANGED connected

RunFails(t) ==
  /\ task[t].pc = "run" /\ "run" \in faults
  /\ Goto(t, "call", <<>>)
  /\ UNCHANGED <<connected, up>>

CallEnds(t) == task[t].pc = "call" /\ Disconnect(t)

(***************************************************************************)
(* cleanup takes the session of a server down some time before its await   *)
(* returns; or it raises, which disconnect suppresses.                     *)
(***************************************************************************)
CleanUp(t) ==
  /\ task[t].pc = "cleanup"
  /\ \E s \in task[t].cleaning :
       /\ \/ up' = up \ {s}
          \/ "cleanup" \in faults /\ up' = up
       /\ task' = [task EXCEPT ![t].pc = "cleaned", ![t].cleaning = @ \ {s}]
  /\ UNCHANGED connected

NextServer(t) ==
  /\ task[t].pc = "cleaned"
  /\ task[t].cleaning # {}
  /\ task' = [task EXCEPT ![t].pc = "cleanup"]
  /\ UNCHANGED <<connected, up>>

Clear_Forgotten(t) ==
  /\ task[t].pc = "cleaned"
  /\ task[t].cleaning = {}
  /\ Goto(t, "ended", <<>>)
  /\ UNCHANGED <<connected, up>>

Clear(t) ==
  /\ task[t].pc = "cleaned"
  /\ task[t].cleaning = {}
  /\ connected' = {}
  /\ Goto(t, "ended", <<>>)
  /\ UNCHANGED up

Step(t) ==
  \/ \E kind \in DOMAIN AgentsOf : Begin(t, kind)
  \/ Connected(t) \/ RunEnds(t) \/ CallEnds(t)
  \/ ConnectFails(t) \/ RunFails(t)
  \/ CleanUp(t) \/ NextServer(t) \/ Clear(t)

Next == (\E t \in Tasks : Step(t)) /\ UNCHANGED mode

Spec == Init /\ [][Next]_vars

-----------------------------------------------------------------------------
(* Type invariant. *)
TypeOK ==
  /\ concurrent \in BOOLEAN
  /\ faults \subseteq Faults
  /\ connected \subseteq Servers
  /\ up \subseteq Servers
  /\ task \in [Tasks -> Task]

(***************************************************************************)
(* In the Lambda, while an agent runs, the server it reads GitHub through  *)
(* has a session: the names in _connected, which outlive the events of a   *)
(* warm Lambda, agree with the sessions, whatever failed in the events     *)
(* before (_ensure with disconnect).                                       *)
(***************************************************************************)
RunsConnected ==
  ~ concurrent =>
    \A t \in Tasks : task[t].pc = "run" => Head(task[t].todo) \in up

(***************************************************************************)
(* Between two events of a Lambda no session is left open and no name is   *)
(* left in _connected, whatever raised in the event but cleanup itself     *)
(* (disconnect in the finally clause cleans up what _ensure connected).    *)
(***************************************************************************)
NothingLeftConnected ==
  /\ ~ concurrent
  /\ "cleanup" \notin faults
  /\ \A t \in Tasks : ~ Active(t)
  => connected = {} /\ up = {}

(***************************************************************************)
(* In the local server a name can outlive its session, but only until the  *)
(* disconnect that closed the session has cleared _connected: no event     *)
(* that begins later is handed a dead server for good (_ensure and         *)
(* disconnect of concurrent events).  A connect that fails may close the   *)
(* session another event has just opened to the same server.               *)
(***************************************************************************)
StaleNamesAreCleared ==
  "connect" \notin faults =>
    \A s \in connected :
      s \in up \/ \E t \in Tasks : task[t].pc \in {"cleanup", "cleaned"}
=============================================================================
