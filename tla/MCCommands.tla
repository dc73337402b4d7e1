----------------------------- MODULE MCCommands -----------------------------
(* For TLC: what the administrator asks the Panel for, orders of upgrades     *)
(* (FleetUpgrades) and changes of nodes and tags (NodeData), and the executor *)
(* that runs a command on the Agent (CommandExecutor), side by side.  They    *)
(* share no variable, and a behaviour is one of one of them; what is between  *)
(* an order and the executor is ControlChannel.                               *)
EXTENDS CommandExecutor, FleetUpgrades, NodeData

CONSTANTS w1, w2

VARIABLE part    \* the component whose behaviour it is

commandsVars == <<part, execVars, fleetVars, nodeDataVars>>

\* Handlers succeed, fail or ask to be resumed.
AnyOutcome == Outcomes

OfExecutor == part = "executor" /\ ExecNext /\ UNCHANGED <<part, fleetVars, nodeDataVars>>
OfFleet == part = "fleet" /\ FleetNext /\ UNCHANGED <<part, execVars, nodeDataVars>>
OfNodeData == part = "nodes" /\ NodeDataNext /\ UNCHANGED <<part, execVars, fleetVars>>

\* Nothing is left to be asked for.
FleetRests == part = "fleet" /\ (\A o \in Orders : Ended(o)) /\ UNCHANGED commandsVars

CommandsInit ==
    /\ part \in {"executor", "fleet", "nodes"}
    /\ ExecInit /\ FleetInit /\ NodeDataInit

CommandsSpec ==
    /\ CommandsInit
    /\ [][OfExecutor \/ OfFleet \/ OfNodeData \/ FleetRests]_commandsVars
=============================================================================
