--------------------------- MODULE ControlChannel ---------------------------
(***************************************************************************)
(* The control channel of one Agent, end to end: the Panel's command table *)
(* (CommandStore), the goroutines that run DispatchAgent and apply results *)
(* (internal/panel/command/dispatcher.go, internal/panel/api/control.go,   *)
(* commands.go), the hub (internal/panel/control/hub.go), the WebSocket    *)
(* sessions, the Agent's control client (internal/agent/control.go) and    *)
(* its executor (CommandExecutor).                                         *)
(*                                                                         *)
(* A Panel goroutine is identified by what it serves: Request(c) is the    *)
(* HTTP request that creates command c, and session s its WebSocket        *)
(* handler.  Sessions are numbered in the order they connect.  The worker  *)
(* of a session is the caller of Execute of the same number.               *)
(***************************************************************************)
EXTENDS CommandStore, CommandExecutor, Sequences

CONSTANTS
    MaxSession,      \* bound on the sessions of a behaviour
    OutboundSize,    \* capacity of a session's outbound channel (32 in the code)
    QueueSize,       \* capacity of the Agent's command queue (32 in the code)
    Faults           \* the disturbances of a behaviour, of those below

\* Connections lost as the Panel or the Agent sees it, restarts of the processes,
\* an HTTP client that goes away, a command's time running out, the creator's
\* loss of the role, the creator's logout.
AllFaults == {"panel_close", "agent_close", "panel_restart", "agent_restart",
              "abort", "expiry", "demotion", "logout"}

ASSUME FaultsAssumption == Faults \subseteq AllFaults

Sessions == 1..MaxSession

ASSUME WorkersAssumption == Workers = Sessions

VARIABLES
    thread,     \* the Panel goroutines
    hub,        \* Hub.sessions of this Agent; 0 when it is offline
    outbound,   \* per session, the channel between Hub.Send and writeLoop
    link,       \* per session, the Agent's side of the connection
    queue,      \* per session, the channel in front of its command worker
    upstream,   \* per session, results on their way to the Panel
    creator     \* the commands' creator: its role, and its login sessions that are gone

panelVars == <<row, thread, hub, creator>>
netVars == <<outbound, link, queue, upstream>>
chanVars == <<panelVars, netVars, execVars>>

-----------------------------------------------------------------------------
Request(c) == MaxSession + c

Requests == {Request(c) : c \in Commands}

Threads == Sessions \cup Requests

Messages == [cmd: Commands, res: Results]

\* off: not started; expire, each, mark: in DispatchAgent; read: waiting for a
\* message; apply: in ApplyAgentResult; end: returned.
ThreadStates ==
    [pc: {"off", "expire", "each", "mark", "read", "apply", "end"},
     todo: SUBSET Commands,        \* the commands the current loop has left
     cmd: 0..MaxCommand,           \* the command of the current step
     st: RowStates \cup {"none"},  \* its state, as last read or written here
     res: Results \cup {NoRecord}] \* the result being applied

Thread(pc) == [pc |-> pc, todo |-> {}, cmd |-> 0, st |-> "none", res |-> NoRecord]

\* gone: the commands whose created_session_id is no row of sessions any more.
Creators == [allowed: BOOLEAN, gone: SUBSET Commands]

PanelOpen(s) == thread[s].pc \notin {"off", "end"}

-----------------------------------------------------------------------------
ChanInit ==
    /\ StoreInit
    /\ ExecInit
    /\ thread = [t \in Threads |-> Thread("off")]
    /\ hub = 0
    /\ outbound = [s \in Sessions |-> <<>>]
    /\ link = [s \in Sessions |-> "new"]
    /\ queue = [s \in Sessions |-> <<>>]
    /\ upstream = [s \in Sessions |-> <<>>]
    /\ creator = [allowed |-> TRUE, gone |-> {}]

\* DispatchAgent begins with Expire, whose query selects the commands first.
Dispatching == [Thread("expire") EXCEPT !.todo = Expirable(late)]

\* The next command of a goroutine's loop: the lowest sequence it has left.
First(t) == {c \in thread[t].todo : \A d \in thread[t].todo : c <= d}

\* The messages of a connection that is gone go with it.
Dropped(messages, gone) == [s \in Sessions |-> IF s \in gone THEN <<>> ELSE messages[s]]

\* Where DispatchAgent goes on with these commands left: when there are none it
\* returns, a request is answered and a session reads messages.
Loop(t, todo) ==
    IF todo # {} THEN [Thread("each") EXCEPT !.todo = todo]
    ELSE Thread(IF t \in Sessions THEN "read" ELSE "end")

\* The goroutine of t returns.  A session leaves the hub if it is still the
\* current one (the deferred Unregister of handleControl).
Ends(t) ==
    /\ thread' = [thread EXCEPT ![t] = Thread("end")]
    /\ hub' = IF hub = t THEN 0 ELSE hub
    /\ outbound' = Dropped(outbound, {t})
    /\ upstream' = Dropped(upstream, {t})

\* Whether a transition made in the creator's name commits: it must be allowed,
\* and a trigger refuses its event when the creator's login session is gone.
Commits(c, to) == AllowedTransition(row[c].state, to) /\ c \notin creator.gone

-----------------------------------------------------------------------------
(* The Panel: creation and dispatch of commands *)

\* handleCreateCommand: the row is committed, DispatchAgent comes next.
CreateCommand(c) ==
    /\ creator.allowed
    /\ Create(c)
    /\ thread' = [thread EXCEPT ![Request(c)] = Dispatching]
    /\ UNCHANGED <<hub, creator, netVars, execVars>>

\* One transaction of Expire; its first error ends Expire and is ignored.
ExpireOne(t) ==
    /\ thread[t].pc = "expire"
    /\ \E c \in First(t) :
          \/ /\ Transition(c, "expired", NoRecord)
             /\ thread' = [thread EXCEPT ![t].todo = @ \ {c}]
          \/ /\ ~AllowedTransition(row[c].state, "expired")
             /\ thread' = [thread EXCEPT ![t].todo = {}]
             /\ UNCHANGED row
    /\ UNCHANGED <<hub, creator, netVars, execVars>>

\* QueuedFor.
ListQueued(t) ==
    /\ thread[t].pc = "expire"
    /\ thread[t].todo = {}
    /\ thread' = [thread EXCEPT ![t] = Loop(t, QueuedFor(late))]
    /\ UNCHANGED <<row, hub, creator, netVars, execVars>>

\* The creator lost the role: the command fails.  A row that cannot move any
\* more makes DispatchAgent return an error.
RefuseDispatch(t) ==
    /\ thread[t].pc = "each"
    /\ ~creator.allowed
    /\ \E c \in First(t) :
          \/ /\ Commits(c, "failed")
             /\ Transition(c, "failed", AuthorizationRevoked)
             /\ thread' = [thread EXCEPT ![t] = Loop(t, @.todo \ {c})]
             /\ UNCHANGED <<hub, outbound, upstream>>
          \/ /\ ~Commits(c, "failed")
             /\ Ends(t)
             /\ UNCHANGED row
    /\ UNCHANGED <<creator, link, queue, execVars>>

\* creatorAndState, then Hub.Send: offline and a full channel skip the command.
\* Sent, a command that was queued is marked dispatched by the next transaction.
SendCommand(t) ==
    LET sent == hub # 0 /\ Len(outbound[hub]) < OutboundSize
    IN  /\ thread[t].pc = "each"
        /\ creator.allowed
        /\ \E c \in First(t) :
              /\ outbound' = IF sent THEN [outbound EXCEPT ![hub] = Append(@, c)] ELSE outbound
              /\ thread' = [thread EXCEPT ![t] =
                               IF sent /\ row[c].state = "queued"
                               THEN [pc |-> "mark", todo |-> @.todo \ {c}, cmd |-> c,
                                     st |-> "none", res |-> NoRecord]
                               ELSE Loop(t, @.todo \ {c})]
        /\ UNCHANGED <<row, hub, creator, link, queue, upstream, execVars>>

\* The transition to dispatched; when the row has moved meanwhile it is
\* forbidden and DispatchAgent returns the error.
MarkDispatched(t) ==
    LET c == thread[t].cmd
    IN  /\ thread[t].pc = "mark"
        /\ \/ /\ Commits(c, "dispatched")
              /\ Transition(c, "dispatched", NoRecord)
              /\ thread' = [thread EXCEPT ![t] = Loop(t, @.todo)]
              /\ UNCHANGED <<hub, outbound, upstream>>
           \/ /\ ~Commits(c, "dispatched")
              /\ Ends(t)
              /\ UNCHANGED row
        /\ UNCHANGED <<creator, link, queue, execVars>>

\* An HTTP client goes away: the request's context ends its DispatchAgent.
AbortRequest(c) ==
    /\ "abort" \in Faults
    /\ thread[Request(c)].pc \notin {"off", "end"}
    /\ Ends(Request(c))
    /\ UNCHANGED <<row, creator, link, queue, execVars>>

-----------------------------------------------------------------------------
(* The Panel: results *)

\* handleControl takes a command_result; ApplyAgentResult reads the row.  A
\* repeated terminal result is fine; a changed one, and one for a command that
\* counts as undelivered, close the session.
ReadResult(s) ==
    LET m == Head(upstream[s])
        r == row[m.cmd]
        repeated == r.state = m.res.state /\ r.res.code = m.res.code
    IN  /\ thread[s].pc = "read"
        /\ upstream[s] # <<>>
        /\ \/ /\ r.state \in {"succeeded", "failed"}
              /\ repeated
              /\ upstream' = [upstream EXCEPT ![s] = Tail(@)]
              /\ UNCHANGED <<thread, hub, outbound>>
           \/ /\ r.state \in {"succeeded", "failed"}
              /\ ~repeated
              /\ Ends(s)
           \/ /\ r.state \in {"queued", "expired"}
              /\ Ends(s)
           \/ /\ r.state \in {"dispatched", "accepted", "running"}
              /\ thread' = [thread EXCEPT ![s] = [pc |-> "apply", todo |-> {}, cmd |-> m.cmd,
                                                  st |-> r.state, res |-> m.res]]
              /\ upstream' = [upstream EXCEPT ![s] = Tail(@)]
              /\ UNCHANGED <<hub, outbound>>
        /\ UNCHANGED <<row, creator, link, queue, execVars>>

\* Mutant: a command that ran counts as succeeded.
NextStateBlind(st, res) ==
    CASE st = "dispatched" -> "accepted"
      [] st = "accepted" -> "running"
      [] OTHER -> "succeeded"

\* The state ApplyAgentResult writes next: one transaction per step, from the
\* state it read first and not from the row.
NextState(st, res) ==
    CASE st = "dispatched" -> "accepted"
      [] st = "accepted" -> "running"
      [] OTHER -> res.state

\* One transaction of ApplyAgentResult.
ApplyStep(s) ==
    LET c == thread[s].cmd
        res == thread[s].res
        to == NextState(thread[s].st, res)
    IN  /\ thread[s].pc = "apply"
        /\ ~(thread[s].st = "running" /\ res.state = "running")
        /\ \/ /\ Commits(c, to)
              /\ Transition(c, to, res)
              /\ thread' = [thread EXCEPT ![s] = IF Terminal(res) /\ to = res.state
                                                 THEN Thread("read")
                                                 ELSE [@ EXCEPT !.st = to]]
              /\ UNCHANGED <<hub, outbound, upstream>>
           \/ /\ ~Commits(c, to)
              /\ Ends(s)
              /\ UNCHANGED row
        /\ UNCHANGED <<creator, link, queue, execVars>>

\* A result that is not terminal leaves the row running.
ApplyDone(s) ==
    /\ thread[s].pc = "apply"
    /\ thread[s].st = "running"
    /\ thread[s].res.state = "running"
    /\ thread' = [thread EXCEPT ![s] = Thread("read")]
    /\ UNCHANGED <<row, hub, creator, netVars, execVars>>

-----------------------------------------------------------------------------
(* Sessions *)

\* The Agent dials once its former session is over; handleControl registers
\* the session, closes the one it replaces and starts to dispatch.
Connect(s) ==
    /\ link[s] = "new"
    /\ \A r \in Sessions : (r < s => link[r] = "closed")
    /\ link' = [link EXCEPT ![s] = "open"]
    /\ hub' = s
    /\ thread' = [t \in Threads |->
                    CASE t = s -> Dispatching
                      [] t = hub /\ t # s -> Thread("end")
                      [] OTHER -> thread[t]]
    /\ outbound' = Dropped(outbound, {hub})
    /\ upstream' = Dropped(upstream, {hub})
    /\ UNCHANGED <<row, creator, queue, execVars>>

\* The Panel's side ends: transport closed, heartbeat timeout, write failure.
PanelClose(s) ==
    /\ "panel_close" \in Faults
    /\ PanelOpen(s)
    /\ Ends(s)
    /\ UNCHANGED <<row, creator, link, queue, execVars>>

\* The Agent's side ends; the session's worker is told by its context only.
AgentClose(s) ==
    /\ "agent_close" \in Faults \/ ~PanelOpen(s)
    /\ link[s] = "open"
    /\ link' = [link EXCEPT ![s] = "closed"]
    /\ UNCHANGED <<panelVars, outbound, queue, upstream, execVars>>

\* writeLoop sends a command and runSession puts it in the worker's queue; a
\* full queue is answered with a failure.
DeliverCommand(s) ==
    LET c == Head(outbound[s])
    IN  /\ PanelOpen(s)
        /\ link[s] = "open"
        /\ outbound[s] # <<>>
        /\ outbound' = [outbound EXCEPT ![s] = Tail(@)]
        /\ IF Len(queue[s]) < QueueSize
           THEN /\ queue' = [queue EXCEPT ![s] = Append(@, c)]
                /\ UNCHANGED upstream
           ELSE /\ upstream' = [upstream EXCEPT ![s] = Append(@,
                                  [cmd |-> c, res |-> FailedResult("command_backpressure")])]
                /\ UNCHANGED queue
        /\ UNCHANGED <<panelVars, link, execVars>>

\* The worker takes the next command.  When its session is over both the queue
\* and the context are ready and Go's select may still choose the queue.
TakeCommand(s) ==
    /\ queue[s] # <<>>
    /\ Call(s, Head(queue[s]))
    /\ queue' = [queue EXCEPT ![s] = Tail(@)]
    /\ UNCHANGED <<panelVars, outbound, link, upstream>>

\* The worker of a closed session ends; its queue is dropped.
WorkerExit(s) ==
    /\ link[s] = "closed"
    /\ work[s].pc = "idle"
    /\ queue[s] # <<>>
    /\ queue' = [queue EXCEPT ![s] = <<>>]
    /\ UNCHANGED <<panelVars, outbound, link, upstream, execVars>>

\* Execute has returned; the result is written while the session is open.
ReturnResult(s) ==
    /\ Return(s)
    /\ upstream' = IF link[s] = "open" /\ PanelOpen(s)
                   THEN [upstream EXCEPT ![s] = Append(@, [cmd |-> work[s].cmd, res |-> work[s].res])]
                   ELSE upstream
    /\ UNCHANGED <<panelVars, outbound, link, queue>>

ExecuteCommand(s) == ExecuteStep(s) /\ UNCHANGED <<panelVars, netVars>>

-----------------------------------------------------------------------------
(* The environment *)

\* The Agent process restarts: connections and queues are gone.
AgentRestart ==
    /\ "agent_restart" \in Faults
    /\ AgentCrash
    /\ link' = [s \in Sessions |-> IF link[s] = "open" THEN "closed" ELSE link[s]]
    /\ queue' = [s \in Sessions |-> <<>>]
    /\ UNCHANGED <<panelVars, outbound, upstream>>

\* The Panel process restarts: goroutines and hub are gone, SQLite stays.
PanelRestart ==
    /\ "panel_restart" \in Faults
    /\ thread' = [t \in Threads |-> IF thread[t].pc = "off" THEN thread[t] ELSE Thread("end")]
    /\ hub' = 0
    /\ outbound' = Dropped(outbound, Sessions)
    /\ upstream' = Dropped(upstream, Sessions)
    /\ UNCHANGED <<row, creator, link, queue, execVars>>

\* Time passes a command's ExpiresAt; Panel and Agent agree on the time.
TimePasses(c) ==
    /\ "expiry" \in Faults
    /\ row[c].state # "none"
    /\ Elapse(c)
    /\ UNCHANGED <<panelVars, netVars>>

\* An administrator demotes the creator of the commands.
Demote ==
    /\ "demotion" \in Faults
    /\ creator.allowed
    /\ creator' = [creator EXCEPT !.allowed = FALSE]
    /\ UNCHANGED <<row, thread, hub, netVars, execVars>>

\* The creator logs out (handleLogout): the session that the rows name as
\* created_session_id is deleted.  Commands created later are of a new login.
Logout ==
    /\ "logout" \in Faults
    /\ creator' = [creator EXCEPT !.gone = {c \in Commands : row[c].state # "none"}]
    /\ UNCHANGED <<row, thread, hub, netVars, execVars>>

-----------------------------------------------------------------------------
DispatchStep(t) ==
    \/ ExpireOne(t)
    \/ ListQueued(t)
    \/ RefuseDispatch(t)
    \/ SendCommand(t)
    \/ MarkDispatched(t)

ResultStep(s) == ReadResult(s) \/ ApplyStep(s) \/ ApplyDone(s)

WorkerStep(s) == TakeCommand(s) \/ ExecuteCommand(s) \/ ReturnResult(s)

Disturbance ==
    \/ \E s \in Sessions : PanelClose(s) \/ AgentClose(s)
    \/ \E c \in Commands : AbortRequest(c) \/ TimePasses(c)
    \/ AgentRestart
    \/ PanelRestart
    \/ Demote
    \/ Logout

ChanNext ==
    \/ \E c \in Commands : CreateCommand(c)
    \/ \E t \in Threads : DispatchStep(t)
    \/ \E s \in Sessions :
          \/ Connect(s)
          \/ ResultStep(s)
          \/ DeliverCommand(s)
          \/ WorkerStep(s)
          \/ WorkerExit(s)
    \/ Disturbance

ChanSpec == ChanInit /\ [][ChanNext]_chanVars

\* Goroutines that can run do run; a message on an open connection is carried;
\* executeMu is starvation free.  Connections, clients and clocks owe nothing.
ChanFairness ==
    /\ \A t \in Threads : WF_chanVars(DispatchStep(t))
    /\ \A s \in Sessions :
          /\ WF_chanVars(ResultStep(s))
          /\ WF_chanVars(DeliverCommand(s))
          /\ SF_chanVars(WorkerStep(s))

ChanFairSpec == ChanSpec /\ ChanFairness

-----------------------------------------------------------------------------
\* Type correctness of the channel's state.
ChanTypeOK ==
    /\ ExecTypeOK
    /\ row \in [Commands -> Rows]
    /\ thread \in [Threads -> ThreadStates]
    /\ hub \in Sessions \cup {0}
    /\ outbound \in [Sessions -> Seq(Commands)]
    /\ link \in [Sessions -> {"new", "open", "closed"}]
    /\ queue \in [Sessions -> Seq(Commands)]
    /\ upstream \in [Sessions -> Seq(Messages)]
    /\ creator \in Creators

\* A command the Panel shows as succeeded did run, and its handler did return
\* success, whatever was lost, repeated or raced in between.
SucceededMeansDone ==
    \A c \in Commands : row[c].state = "succeeded" => c \in won

\* The history the Panel shows, over the executions of the Agent.
Lifecycle == INSTANCE CommandLifecycle
    WITH status <- [c \in Commands |-> row[c].state], achieved <- won

\* The channel implements CommandLifecycle: concurrent DispatchAgent calls,
\* results applied in several transactions, redelivery and restarts never take
\* a command off its state machine, back from a final state, or to succeeded
\* without a success on the Agent.
ImplementsLifecycle == Lifecycle!Spec

\* A command has left the Panel's hands: running, or finished.
Resolved(c) == row[c].state \in {"running", "succeeded", "failed", "expired"}

\* "After reconnect" nothing is lost: once a session stays up, every command
\* that was created is resolved, although neither expiry nor a retry timer
\* pushes it, as long as the outbound channel has room.
ReconnectResolvesAll ==
    (\E s \in Sessions : <>[](hub = s /\ link[s] = "open"))
        => \A c \in Commands : row[c].state # "none" ~> Resolved(c)
=============================================================================
