------------------------------ MODULE Scheduler ------------------------------
(***************************************************************************)
(* The Agent's collection loop (internal/agent/scheduler.go) together with *)
(* the calls that meet it: collect_now commands, reloads, and the shutdown *)
(* in Runtime.Run (runtime.go).                                            *)
(***************************************************************************)
CONSTANT Callers    \* the calls of Scheduler.Request

VARIABLES
    stopped,    \* s.stop is closed
    cancelled,  \* the context of Scheduler.Run is done
    trigger,    \* whether s.trigger, of capacity one, is full
    waiters,    \* s.waiters
    loop,       \* where Scheduler.Run is
    taken,      \* the waiters of the collection under way
    req,        \* where each call of Request is
    resp,       \* the response channel of each call
    ctx,        \* the calls whose context is done: the session or the Agent ends
    runtime,    \* where Runtime.Run is
    before      \* the calls registered before the collection under way began

loopVars == <<loop, taken, before>>
callVars == <<req, resp, ctx>>
schedVars == <<stopped, cancelled, trigger, waiters, loopVars, callVars, runtime>>

-----------------------------------------------------------------------------
\* Run collects once at startup.
SchedInit ==
    /\ stopped = FALSE
    /\ cancelled = FALSE
    /\ trigger = FALSE
    /\ waiters = {}
    /\ loop = "pending"
    /\ taken = {}
    /\ req = [q \in Callers |-> "idle"]
    /\ resp = [q \in Callers |-> "none"]
    /\ ctx = {}
    /\ runtime = "running"
    /\ before = {}

-----------------------------------------------------------------------------
(* Scheduler.Request and Trigger *)

\* HandleCollectNow: without a scheduler, or after Stop, nothing is asked for.
Enter(q) ==
    /\ req[q] = "idle"
    /\ req' = [req EXCEPT ![q] = IF stopped \/ runtime = "exited" THEN "returned" ELSE "entered"]
    /\ UNCHANGED <<stopped, cancelled, trigger, waiters, loopVars, resp, ctx, runtime>>

\* The response channel joins the waiters, under waitersMu.
Register(q) ==
    /\ req[q] = "entered"
    /\ req' = [req EXCEPT ![q] = "registered"]
    /\ waiters' = waiters \union {q}
    /\ UNCHANGED <<stopped, cancelled, trigger, loopVars, resp, ctx, runtime>>

\* Mutant: the channel has no buffer, so only a waiting loop receives.
AfterTriggerUnbuffered == trigger \/ (~stopped /\ loop = "select")

\* Trigger fills the channel, unless it is full or the scheduler is stopped.
AfterTrigger == trigger \/ ~stopped

\* The call triggers and waits for its answer.
Ask(q) ==
    /\ req[q] = "registered"
    /\ req' = [req EXCEPT ![q] = "waiting"]
    /\ trigger' = AfterTrigger
    /\ UNCHANGED <<stopped, cancelled, waiters, loopVars, resp, ctx, runtime>>

\* SetInterval of a reload.
Retrigger ==
    /\ runtime # "exited"
    /\ trigger' = AfterTrigger
    /\ UNCHANGED <<stopped, cancelled, waiters, loopVars, callVars, runtime>>

Receive(q) ==
    /\ req[q] = "waiting"
    /\ resp[q] # "none"
    /\ req' = [req EXCEPT ![q] = "returned"]
    /\ UNCHANGED <<stopped, cancelled, trigger, waiters, loopVars, resp, ctx, runtime>>

\* Mutant: the call waits for its answer only.
GiveUpNever(q) == FALSE /\ UNCHANGED schedVars

\* ctx.Done(): the waiter is removed.
GiveUp(q) ==
    /\ req[q] = "waiting"
    /\ q \in ctx
    /\ req' = [req EXCEPT ![q] = "returned"]
    /\ waiters' = waiters \ {q}
    /\ UNCHANGED <<stopped, cancelled, trigger, loopVars, resp, ctx, runtime>>

\* The control session of the command breaks.
SessionLost(q) ==
    /\ ctx' = ctx \union {q}
    /\ UNCHANGED <<stopped, cancelled, trigger, waiters, loopVars, req, resp, runtime>>

-----------------------------------------------------------------------------
(* Scheduler.Run *)

\* takeWaiters, then the collection starts.
Take ==
    /\ loop = "pending"
    /\ loop' = "collecting"
    /\ taken' = waiters
    /\ waiters' = {}
    /\ before' = {q \in Callers : req[q] \in {"registered", "waiting"}}
    /\ UNCHANGED <<stopped, cancelled, trigger, callVars, runtime>>

\* Each waiter's channel, of capacity one, receives the result.
AnswerAll(S, value) == [q \in Callers |-> IF q \in S THEN value ELSE resp[q]]

\* Mutant: whoever waits when the collection ends is answered by it.
AnsweredByAll == taken \union waiters

\* The calls a collection answers: the waiters taken before it began.
AnsweredBy == taken

\* The collection ends, well or not, and its waiters are answered.
CollectEnds ==
    /\ loop = "collecting"
    /\ loop' = "collected"
    /\ \E result \in {"ok", "failed"} : resp' = AnswerAll(AnsweredBy, result)
    /\ taken' = {}
    /\ UNCHANGED <<stopped, cancelled, trigger, waiters, before, req, ctx, runtime>>

Over == cancelled \/ stopped

\* After a collection the end comes first, then a trigger.
Checks ==
    /\ loop = "collected"
    /\ loop' = CASE Over -> "failing" [] ~Over /\ trigger -> "pending" [] OTHER -> "select"
    /\ trigger' = (trigger /\ Over)
    /\ UNCHANGED <<stopped, cancelled, waiters, taken, before, callVars, runtime>>

\* select picks any case that is ready.
SelectOver ==
    /\ loop = "select"
    /\ Over
    /\ loop' = "failing"
    /\ UNCHANGED <<stopped, cancelled, trigger, waiters, taken, before, callVars, runtime>>

SelectTrigger ==
    /\ loop = "select"
    /\ trigger
    /\ trigger' = FALSE
    /\ loop' = "pending"
    /\ UNCHANGED <<stopped, cancelled, waiters, taken, before, callVars, runtime>>

SelectTimer ==
    /\ loop = "select"
    /\ loop' = "pending"
    /\ UNCHANGED <<stopped, cancelled, trigger, waiters, taken, before, callVars, runtime>>

\* failWaiters, deferred.
FailWaiters ==
    /\ loop = "failing"
    /\ loop' = "done"
    /\ resp' = AnswerAll(waiters, "cancelled")
    /\ waiters' = {}
    /\ UNCHANGED <<stopped, cancelled, trigger, taken, before, req, ctx, runtime>>

-----------------------------------------------------------------------------
(* Runtime.Run *)

\* SIGTERM: cancelControl ends the context of every command ...
Terminate ==
    /\ runtime = "running"
    /\ runtime' = "stopping"
    /\ ctx' = Callers
    /\ UNCHANGED <<stopped, cancelled, trigger, waiters, loopVars, req, resp>>

\* ... and the scheduler is stopped.
Stop ==
    /\ runtime = "stopping"
    /\ runtime' = "draining"
    /\ stopped' = TRUE
    /\ UNCHANGED <<cancelled, trigger, waiters, loopVars, callVars>>

\* shutdown_timeout is over: cancelRun.
GraceOver ==
    /\ runtime = "draining"
    /\ ~cancelled
    /\ cancelled' = TRUE
    /\ UNCHANGED <<stopped, trigger, waiters, loopVars, callVars, runtime>>

\* schedulerDone is closed: Run forgets the scheduler and returns.
RunReturn ==
    /\ runtime = "draining"
    /\ loop = "done"
    /\ runtime' = "exited"
    /\ cancelled' = TRUE
    /\ UNCHANGED <<stopped, trigger, waiters, loopVars, callVars>>

-----------------------------------------------------------------------------
LoopNext ==
    \/ Take \/ CollectEnds \/ Checks \/ SelectOver \/ SelectTrigger \/ SelectTimer
    \/ FailWaiters

CallNext(q) == Enter(q) \/ Register(q) \/ Ask(q) \/ Receive(q) \/ GiveUp(q) \/ SessionLost(q)

SchedNext ==
    \/ LoopNext \/ Retrigger
    \/ \E q \in Callers : CallNext(q)
    \/ Terminate \/ Stop \/ GraceOver \/ RunReturn

SchedSpec == SchedInit /\ [][SchedNext]_schedVars

\* Every goroutine goes on; a select whose end case stays ready does not pass it
\* over for ever.  Neither the timer nor the grace period, nor a call or a
\* signal, has to come.
SchedFairness ==
    /\ WF_schedVars(Take \/ CollectEnds \/ Checks \/ SelectTrigger \/ FailWaiters)
    /\ SF_schedVars(SelectOver)
    /\ \A q \in Callers : WF_schedVars(Register(q) \/ Ask(q) \/ Receive(q) \/ GiveUp(q))
    /\ WF_schedVars(Stop)
    /\ WF_schedVars(RunReturn)

SchedFairSpec == SchedSpec /\ SchedFairness

-----------------------------------------------------------------------------
\* Type correctness of the scheduler's state.
SchedTypeOK ==
    /\ stopped \in BOOLEAN
    /\ cancelled \in BOOLEAN
    /\ trigger \in BOOLEAN
    /\ waiters \subseteq Callers
    /\ loop \in {"pending", "collecting", "collected", "select", "failing", "done"}
    /\ taken \subseteq Callers
    /\ req \in [Callers -> {"idle", "entered", "registered", "waiting", "returned"}]
    /\ resp \in [Callers -> {"none", "ok", "failed", "cancelled"}]
    /\ ctx \subseteq Callers
    /\ runtime \in {"running", "stopping", "draining", "exited"}
    /\ before \subseteq Callers

\* A collect_now that reports success speaks of a collection that began after
\* it was asked for, never of one that was under way.
AnswerIsFresh ==
    [][\A q \in Callers : resp[q] = "none" /\ resp'[q] \in {"ok", "failed"} => q \in before]_schedVars

\* A call that waits does not depend on the timer: until the scheduler stops,
\* its answer is there, or the collection that will answer it is under way, or
\* a trigger is left for it.
NoLostWakeup ==
    \A q \in Callers :
        req[q] = "waiting" /\ ~stopped /\ ~cancelled =>
            \/ resp[q] # "none"
            \/ q \in taken
            \/ q \in waiters /\ (trigger \/ loop = "pending")

\* Nobody waits for nobody: every call returns, also one that registers after the
\* loop has ended, and SIGTERM ends Runtime.Run without the help of the grace
\* period.
CallsReturn ==
    /\ \A q \in Callers : req[q] = "entered" ~> req[q] = "returned"
    /\ runtime = "stopping" ~> runtime = "exited"
=============================================================================
