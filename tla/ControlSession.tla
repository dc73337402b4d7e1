--------------------------- MODULE ControlSession ---------------------------
(***************************************************************************)
(* One control session of the Agent after its welcome: the goroutines of   *)
(* ControlClient.runSession (internal/agent/control.go), which share one   *)
(* connection of internal/wsclient/wsclient.go.  The loop selects, the     *)
(* reader feeds it through inbound, the worker runs the commands.          *)
(*                                                                         *)
(* The Panel's end answers as its WebSocket library does and sends as the  *)
(* session of internal/panel/api/control.go does; it and the network are   *)
(* external.  A deadline may pass at any time.                             *)
(***************************************************************************)
EXTENDS Naturals, Sequences, SequencesExt

CONSTANTS
    MaxCommand,       \* bound on the commands: the Panel sends 1 .. MaxCommand in order
    QueueSize,        \* commands the worker's queue holds, and its results; 32 in the code
    LinkSize,         \* frames a direction of the connection takes before a write blocks
    Tickers,          \* the tickers of the session: "heartbeat" and "ping" in the code
    SessionFaults     \* what may happen, of the list below

\* cut: the network drops everything from now on.  close: the Panel ends the
\* session (a newer one, a revocation, its own shutdown).  stop: the Agent stops.
AllSessionFaults == {"cut", "close", "stop"}

ASSUME SessionAssumption ==
    /\ MaxCommand \in Nat
    /\ QueueSize \in Nat \ {0}
    /\ LinkSize \in Nat \ {0}
    /\ Tickers \subseteq {"heartbeat", "ping"}
    /\ SessionFaults \subseteq AllSessionFaults

VARIABLES
    net,        \* ok, cut, broken (TCP gave up) or closed (by the Panel)
    down,       \* the frames on their way to the Agent
    up,         \* the frames on their way to the Panel
    panelPing,  \* whether a Ping of the Panel's writeLoop waits for its pong
    sent,       \* the last command the Panel has sent
    stopping,   \* ctx is done: the Agent is stopping
    open,       \* whether CloseNow has not been called
    mainLoop,   \* the select loop of runSession
    ticks,      \* the tickers that have fired
    resolved,   \* whether the pong of the loop's Ping has been read
    reader,     \* the goroutine that reads
    inbound,    \* the channel to the loop, of capacity one
    queue,      \* commandQueue
    worker,     \* the command worker
    results,    \* commandResults
    writeMu     \* who holds Conn.writeMu

link == <<down, up>>
netVars == <<net, link, panelPing, sent>>
agentLoop == <<mainLoop, ticks, resolved>>
workVars == <<queue, worker, results>>
sessionVars == <<netVars, stopping, open, agentLoop, reader, inbound, workVars, writeMu>>

-----------------------------------------------------------------------------
SessionCommands == 1 .. MaxCommand

Frame(kind) == [kind |-> kind, command |-> 0]
About(kind, c) == [kind |-> kind, command |-> c]

DownFrames == {Frame("ping"), Frame("pong")} \cup {About("command", c) : c \in SessionCommands}
Answers == {About(k, c) : k \in {"result", "backpressure"}, c \in SessionCommands}
UpFrames == {Frame(k) : k \in {"heartbeat", "ping", "pong"}} \cup Answers

Idle == Frame("none")
EOF == Frame("error")

SessionInit ==
    /\ net = "ok"
    /\ down = <<>> /\ up = <<>>
    /\ panelPing = FALSE
    /\ sent = 0
    /\ stopping = FALSE
    /\ open = TRUE
    /\ mainLoop = [pc |-> "select", job |-> Idle]
    /\ ticks = {}
    /\ resolved = FALSE
    /\ reader = [pc |-> "read", frame |-> Idle]
    /\ inbound = <<>>
    /\ queue = <<>> /\ results = <<>>
    /\ worker = [pc |-> "idle", command |-> 0]
    /\ writeMu = "free"

Dead == ~open \/ net \in {"broken", "closed"}

\* sessionContext and readContext: of ctx, cancelled when runSession returns.
SessionDone == stopping \/ mainLoop.pc = "ended"

-----------------------------------------------------------------------------
(* The loop *)

\* What the Panel still reads of a connection the Agent has closed is left out.
CloseNow ==
    /\ open' = FALSE
    /\ down' = <<>> /\ up' = <<>>

\* runSession returns: the deferred calls stop the tickers, close the connection
\* and cancel both contexts.
LoopEnds ==
    /\ mainLoop' = [pc |-> "ended", job |-> Idle]
    /\ ticks' = {}
    /\ resolved' = FALSE
    /\ CloseNow

\* The loop has a frame to write and wants writeMu; a Ping starts its 10 s here.
LoopWrites(job) ==
    /\ mainLoop' = [pc |-> "lock", job |-> job]
    /\ resolved' = FALSE

SelectStop ==
    /\ mainLoop.pc = "select"
    /\ stopping
    /\ LoopWrites(Frame("close"))
    /\ UNCHANGED <<netVars, stopping, open, ticks, reader, inbound, workVars, writeMu>>

SelectTick(kind) ==
    /\ mainLoop.pc = "select"
    /\ kind \in ticks
    /\ ticks' = ticks \ {kind}
    /\ LoopWrites(Frame(kind))
    /\ UNCHANGED <<netVars, stopping, open, reader, inbound, workVars, writeMu>>

SelectResult ==
    /\ mainLoop.pc = "select"
    /\ results # <<>>
    /\ LoopWrites(About("result", Head(results)))
    /\ results' = Tail(results)
    /\ UNCHANGED <<netVars, stopping, open, ticks, reader, inbound, queue, worker, writeMu>>

\* Mutant: a command that does not fit in the queue is dropped.
RefuseSilently(c) == UNCHANGED <<mainLoop, resolved>>

\* The worker's queue is full: the command is refused on the connection.
Refuse(c) == LoopWrites(About("backpressure", c))

SelectInbound ==
    /\ mainLoop.pc = "select"
    /\ inbound # <<>>
    /\ inbound' = <<>>
    /\ LET frame == Head(inbound)
       IN  \/ /\ frame = EOF
              /\ LoopEnds
              /\ UNCHANGED queue
           \/ /\ frame # EOF
              /\ Len(queue) < QueueSize
              /\ queue' = Append(queue, frame.command)
              /\ UNCHANGED <<mainLoop, open, ticks, resolved, link>>
           \/ /\ frame # EOF
              /\ Len(queue) >= QueueSize
              /\ Refuse(frame.command)
              /\ UNCHANGED <<queue, open, ticks, link>>
    /\ UNCHANGED <<net, panelPing, sent, stopping, reader, worker, results, writeMu>>

\* writeFrame takes writeMu whatever its context says.
LoopLocks ==
    /\ mainLoop.pc = "lock"
    /\ writeMu = "free"
    /\ writeMu' = "loop"
    /\ mainLoop' = [mainLoop EXCEPT !.pc = "write"]
    /\ UNCHANGED <<netVars, stopping, open, ticks, resolved, reader, inbound, workVars>>

\* The frame is out; a Ping waits for its pong, and Close closes the connection.
LoopWritten ==
    /\ mainLoop.pc = "write"
    /\ ~Dead
    /\ Len(up) < LinkSize
    /\ writeMu' = "free"
    /\ \/ /\ mainLoop.job.kind = "close"
          /\ LoopEnds
       \/ /\ mainLoop.job.kind # "close"
          /\ up' = Append(up, mainLoop.job)
          /\ mainLoop' = IF mainLoop.job.kind = "ping" THEN [mainLoop EXCEPT !.pc = "await"]
                     ELSE [pc |-> "select", job |-> Idle]
          /\ UNCHANGED <<open, ticks, resolved, down>>
    /\ UNCHANGED <<net, panelPing, sent, stopping, reader, inbound, workVars>>

LoopWriteFails ==
    /\ mainLoop.pc = "write"
    /\ Dead
    /\ writeMu' = "free"
    /\ LoopEnds
    /\ UNCHANGED <<net, panelPing, sent, stopping, reader, inbound, workVars>>

Ponged ==
    /\ mainLoop.pc = "await"
    /\ resolved
    /\ mainLoop' = [pc |-> "select", job |-> Idle]
    /\ UNCHANGED <<netVars, stopping, open, ticks, resolved, reader, inbound, workVars, writeMu>>

\* Ping while the Agent stops: its context is a child of ctx.
AwaitStopped ==
    /\ mainLoop.pc = "await"
    /\ stopping
    /\ LoopEnds
    /\ UNCHANGED <<net, panelPing, sent, stopping, reader, inbound, workVars, writeMu>>

-----------------------------------------------------------------------------
(* The reader: Conn.Read, then the push into inbound *)

ReaderPushes(frame) == reader' = [pc |-> "push", frame |-> frame]

ReadFrame ==
    /\ reader.pc = "read"
    /\ open
    /\ down # <<>>
    /\ net # "broken"
    /\ down' = Tail(down)
    /\ CASE Head(down).kind = "pong" -> resolved' = TRUE /\ reader' = reader
         [] Head(down).kind = "ping" -> reader' = [pc |-> "lock", frame |-> Idle] /\ resolved' = resolved
         [] OTHER -> ReaderPushes(Head(down)) /\ resolved' = resolved
    /\ UNCHANGED <<net, up, panelPing, sent, stopping, open, mainLoop, ticks, inbound, workVars, writeMu>>

ReadFails ==
    /\ reader.pc = "read"
    /\ \/ ~open
       \/ net = "broken"
       \/ net = "closed" /\ down = <<>>
    /\ ReaderPushes(EOF)
    /\ UNCHANGED <<netVars, stopping, open, agentLoop, inbound, workVars, writeMu>>

ReaderLocks ==
    /\ reader.pc = "lock"
    /\ writeMu = "free"
    /\ writeMu' = "reader"
    /\ reader' = [reader EXCEPT !.pc = "write"]
    /\ UNCHANGED <<netVars, stopping, open, agentLoop, inbound, workVars>>

\* The pong of a Panel's ping, or the error of writing it.
ReaderWritten ==
    /\ reader.pc = "write"
    /\ \/ /\ ~Dead
          /\ Len(up) < LinkSize
          /\ up' = Append(up, Frame("pong"))
          /\ reader' = [pc |-> "read", frame |-> Idle]
       \/ /\ Dead
          /\ up' = up
          /\ ReaderPushes(EOF)
    /\ writeMu' = "free"
    /\ UNCHANGED <<net, down, panelPing, sent, stopping, open, agentLoop, inbound, workVars>>

AfterPush(frame) == [pc |-> IF frame = EOF THEN "ended" ELSE "read", frame |-> Idle]

Push ==
    /\ reader.pc = "push"
    /\ inbound = <<>>
    /\ inbound' = <<reader.frame>>
    /\ reader' = AfterPush(reader.frame)
    /\ UNCHANGED <<netVars, stopping, open, agentLoop, workVars, writeMu>>

\* Mutant: the push does not look at readContext.
NeverStopped == FALSE

\* The alternative of the push: readContext is done.
ReadStopped == SessionDone

ReaderStops ==
    /\ reader.pc = "push"
    /\ ReadStopped
    /\ reader' = [pc |-> "ended", frame |-> Idle]
    /\ UNCHANGED <<netVars, stopping, open, agentLoop, inbound, workVars, writeMu>>

\* context.AfterFunc(ctx, c.CloseNow) of the calls of Conn under way.
AfterFuncCloses ==
    /\ open
    /\ \/ stopping /\ mainLoop.pc = "write" /\ mainLoop.job.kind # "close"
       \/ SessionDone /\ reader.pc \in {"read", "write"}
    /\ CloseNow
    /\ UNCHANGED <<net, panelPing, sent, stopping, agentLoop, reader, inbound, workVars, writeMu>>

-----------------------------------------------------------------------------
(* startCommandWorker *)

WorkerTakes ==
    /\ worker.pc = "idle"
    /\ queue # <<>>
    /\ worker' = [pc |-> "run", command |-> Head(queue)]
    /\ queue' = Tail(queue)
    /\ UNCHANGED <<netVars, stopping, open, agentLoop, reader, inbound, results, writeMu>>

\* HandleCommand (module CommandExecutor) returns, and there is room for the result.
WorkerAnswers ==
    /\ worker.pc = "run"
    /\ Len(results) < QueueSize
    /\ results' = Append(results, worker.command)
    /\ worker' = [pc |-> "idle", command |-> 0]
    /\ UNCHANGED <<netVars, stopping, open, agentLoop, reader, inbound, queue, writeMu>>

WorkerStops ==
    /\ worker.pc # "ended"
    /\ SessionDone
    /\ worker' = [pc |-> "ended", command |-> 0]
    /\ UNCHANGED <<netVars, stopping, open, agentLoop, reader, inbound, queue, results, writeMu>>

-----------------------------------------------------------------------------
(* The Panel and the network, until the Agent closes its end *)

Connected == net = "ok" /\ open

\* The read loop takes a frame; the library answers a ping at once.
PanelReads ==
    /\ Connected
    /\ up # <<>>
    /\ Head(up).kind = "ping" => Len(down) < LinkSize
    /\ up' = Tail(up)
    /\ down' = IF Head(up).kind = "ping" THEN Append(down, Frame("pong")) ELSE down
    /\ panelPing' = (panelPing /\ Head(up).kind # "pong")
    /\ UNCHANGED <<net, sent, stopping, open, agentLoop, reader, inbound, workVars, writeMu>>

\* A command of writeLoop, in the order of the dispatcher.
PanelSends ==
    /\ Connected
    /\ Len(down) < LinkSize
    /\ sent < MaxCommand
    /\ sent' = sent + 1
    /\ down' = Append(down, About("command", sent'))
    /\ UNCHANGED <<net, up, panelPing, stopping, open, agentLoop, reader, inbound, workVars, writeMu>>

PanelPings ==
    /\ Connected
    /\ ~panelPing
    /\ Len(down) < LinkSize
    /\ panelPing' = TRUE
    /\ down' = Append(down, Frame("ping"))
    /\ UNCHANGED <<net, up, sent, stopping, open, agentLoop, reader, inbound, workVars, writeMu>>

PanelCloses ==
    /\ "close" \in SessionFaults
    /\ Connected
    /\ net' = "closed"
    /\ UNCHANGED <<down, up, panelPing, sent, stopping, open, agentLoop, reader, inbound, workVars, writeMu>>

\* What was already received may still be read.
Cut ==
    /\ "cut" \in SessionFaults
    /\ Connected
    /\ net' = "cut"
    /\ \E k \in 0 .. Len(down) : down' = SubSeq(down, 1, k)
    /\ UNCHANGED <<up, panelPing, sent, stopping, open, agentLoop, reader, inbound, workVars, writeMu>>

\* Nothing that was written to a cut connection is acknowledged.
TcpGivesUp ==
    /\ net = "cut"
    /\ open
    /\ up # <<>>
    /\ net' = "broken"
    /\ UNCHANGED <<down, up, panelPing, sent, stopping, open, agentLoop, reader, inbound, workVars, writeMu>>

AgentStops ==
    /\ "stop" \in SessionFaults
    /\ ~stopping
    /\ stopping' = TRUE
    /\ UNCHANGED <<netVars, open, agentLoop, reader, inbound, workVars, writeMu>>

-----------------------------------------------------------------------------
(* Deadlines and tickers *)

LoopStep ==
    \/ SelectStop
    \/ \E kind \in Tickers : SelectTick(kind)
    \/ SelectResult
    \/ SelectInbound
    \/ LoopLocks
    \/ LoopWritten
    \/ LoopWriteFails
    \/ Ponged
    \/ AwaitStopped

ReaderStep == ReadFrame \/ ReadFails \/ ReaderLocks \/ ReaderWritten \/ Push \/ ReaderStops
WorkerStep == WorkerTakes \/ WorkerAnswers \/ WorkerStops

\* What takes less than any deadline below.
Quick == LoopStep \/ ReaderStep \/ WorkerStep \/ AfterFuncCloses \/ PanelReads

\* The tickers, 30 s each; a tick that is not taken is not repeated.
Tick(kind) ==
    /\ mainLoop.pc # "ended"
    /\ kind \notin ticks
    /\ ticks' = ticks \cup {kind}
    /\ UNCHANGED <<netVars, stopping, open, mainLoop, resolved, reader, inbound, workVars, writeMu>>

\* The 10 s of the loop's Ping are over: the connection is closed, and the loop
\* returns the error.  Waiting for writeMu it does neither.
PingTimesOut ==
    /\ mainLoop.pc \in {"write", "await"}
    /\ mainLoop.job.kind = "ping"
    /\ LoopEnds
    /\ writeMu' = IF mainLoop.pc = "write" THEN "free" ELSE writeMu
    /\ UNCHANGED <<net, panelPing, sent, stopping, reader, inbound, workVars>>

\* The Panel's own deadlines: 10 s for the pong of its ping, and for room on a
\* connection the Agent does not read.
PanelTimesOut ==
    /\ Connected
    /\ panelPing \/ Len(down) = LinkSize
    /\ net' = "closed"
    /\ UNCHANGED <<down, up, panelPing, sent, stopping, open, agentLoop, reader, inbound, workVars, writeMu>>

-----------------------------------------------------------------------------
SessionNext ==
    \/ Quick
    \/ \E kind \in Tickers : Tick(kind)
    \/ PingTimesOut
    \/ PanelTimesOut
    \/ PanelSends
    \/ PanelPings
    \/ PanelCloses
    \/ Cut
    \/ TcpGivesUp
    \/ AgentStops

SessionSpec == SessionInit /\ [][SessionNext]_sessionVars

\* Go runs what can run.  A select picks at random among what is ready, and a
\* Mutex lets no one starve, so what is ready again and again is taken in the
\* end.  Deadlines and the retransmissions of TCP run out.
SessionFairness ==
    /\ WF_sessionVars(LoopStep) /\ SF_sessionVars(LoopLocks)
    /\ SF_sessionVars(SelectStop) /\ SF_sessionVars(SelectTick("ping"))
    /\ WF_sessionVars(Tick("ping")) /\ WF_sessionVars(PingTimesOut)
    /\ WF_sessionVars(ReaderStep) /\ WF_sessionVars(WorkerStep)
    /\ WF_sessionVars(AfterFuncCloses) /\ WF_sessionVars(TcpGivesUp)
    /\ WF_sessionVars(PanelReads) /\ WF_sessionVars(PanelTimesOut)

SessionFairSpec == SessionSpec /\ SessionFairness

-----------------------------------------------------------------------------
\* Type correctness.
SessionTypeOK ==
    /\ net \in {"ok", "cut", "broken", "closed"}
    /\ down \in BoundedSeq(DownFrames, LinkSize)
    /\ up \in BoundedSeq(UpFrames, LinkSize)
    /\ panelPing \in BOOLEAN /\ stopping \in BOOLEAN /\ open \in BOOLEAN /\ resolved \in BOOLEAN
    /\ sent \in 0 .. MaxCommand
    /\ mainLoop.pc \in {"select", "lock", "write", "await", "ended"}
    /\ mainLoop.job \in UpFrames \cup {Idle, Frame("close")}
    /\ ticks \subseteq Tickers
    /\ reader.pc \in {"read", "lock", "write", "push", "ended"}
    /\ reader.frame \in {Idle, EOF} \cup {About("command", c) : c \in SessionCommands}
    /\ inbound \in BoundedSeq({EOF} \cup {About("command", c) : c \in SessionCommands}, 1)
    /\ queue \in BoundedSeq(SessionCommands, QueueSize)
    /\ results \in BoundedSeq(SessionCommands, QueueSize)
    /\ worker.pc \in {"idle", "run", "ended"}
    /\ writeMu \in {"free", "loop", "reader"}

\* Where a command the Agent has read, and not answered, can be.
Held ==
    {c \in SessionCommands :
        \/ reader.frame = About("command", c)
        \/ About("command", c) \in ToSet(inbound)
        \/ c \in ToSet(queue) \cup ToSet(results)
        \/ worker.pc = "run" /\ worker.command = c
        \/ mainLoop.job \in {About("result", c), About("backpressure", c)}}

AnswerOf(frames) == {c \in SessionCommands : \E f \in ToSet(frames) : f \in Answers /\ f.command = c}

\* A command the reader takes off the connection does not vanish: while the
\* session is up it stays in one of the channels or with the goroutine that has it,
\* until its result, or its refusal for want of room, is written.
TakenIsAnswered ==
    [][\A c \in Held : mainLoop'.pc # "ended" /\ open' /\ ~stopping =>
            c \in Held' \/ c \in AnswerOf(up') \ AnswerOf(up)]_sessionVars

\* A session whose transport is dead, and a session of an Agent that stops, ends,
\* whatever its loop and its reader were waiting for; and a session that ended
\* leaves no goroutine behind.
SessionUnwinds ==
    /\ net # "ok" \/ stopping ~> mainLoop.pc = "ended"
    /\ mainLoop.pc = "ended" ~> reader.pc = "ended" /\ worker.pc = "ended"

\* "uses WebSocket ping/pong to detect a dead transport": with everything at rest,
\* a Ping that is given up means that the network, or the Panel, is gone.
OnlyDeadTransportIsGivenUp == [][PingTimesOut => net # "ok" \/ ENABLED Quick]_sessionVars
=============================================================================
