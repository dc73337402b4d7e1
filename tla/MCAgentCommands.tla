--------------------------- MODULE MCAgentCommands ---------------------------
(* For TLC: the control channel with reconnecting sessions, and beside it the *)
(* scheduler that its collect_now commands call.  They share no variable, and *)
(* a behaviour is one of one of them.                                         *)
EXTENDS ControlChannel, Scheduler

VARIABLE part    \* the component whose behaviour it is

partsVars == <<part, chanVars, schedVars>>

\* Handlers succeed, fail or ask to be resumed.
AnyOutcome == Outcomes

ChannelOnly(A) == part = "channel" /\ A /\ UNCHANGED <<part, schedVars>>
SchedulerOnly(A) == part = "scheduler" /\ A /\ UNCHANGED <<part, chanVars>>

\* ChanFairness and SchedFairness, each of its component.
PartsFairness ==
    /\ \A t \in Threads : WF_partsVars(ChannelOnly(DispatchStep(t)))
    /\ \A s \in Sessions :
          /\ WF_partsVars(ChannelOnly(ResultStep(s)))
          /\ WF_partsVars(ChannelOnly(DeliverCommand(s)))
          /\ SF_partsVars(ChannelOnly(WorkerStep(s)))
    /\ WF_partsVars(SchedulerOnly(Take \/ CollectEnds \/ Checks \/ SelectTrigger \/ FailWaiters))
    /\ SF_partsVars(SchedulerOnly(SelectOver))
    /\ \A q \in Callers :
          WF_partsVars(SchedulerOnly(Register(q) \/ Ask(q) \/ Receive(q) \/ GiveUp(q)))
    /\ WF_partsVars(SchedulerOnly(Stop))
    /\ WF_partsVars(SchedulerOnly(RunReturn))

PartsInit == part \in {"channel", "scheduler"} /\ ChanInit /\ SchedInit

PartsFairSpec ==
    /\ PartsInit
    /\ [][ChannelOnly(ChanNext) \/ SchedulerOnly(SchedNext)]_partsVars
    /\ PartsFairness
=============================================================================
