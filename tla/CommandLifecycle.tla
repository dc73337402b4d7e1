-------------------------- MODULE CommandLifecycle --------------------------
(***************************************************************************)
(* What the control channel promises of the commands of one Agent, as the  *)
(* Panel's command history shows them: each follows the state machine of   *)
(* allowedTransition, is executed only after it was issued, and is shown   *)
(* as succeeded only after its handler has succeeded on the Agent.         *)
(***************************************************************************)
CONSTANT Commands

VARIABLES
    status,     \* the state of each command in the Panel's history
    achieved    \* the commands whose handler has succeeded on the Agent

lifecycleVars == <<status, achieved>>

Moves == {<<"none", "queued">>,
          <<"queued", "dispatched">>, <<"queued", "failed">>, <<"queued", "expired">>,
          <<"dispatched", "accepted">>, <<"dispatched", "failed">>, <<"dispatched", "expired">>,
          <<"accepted", "running">>, <<"accepted", "failed">>, <<"accepted", "expired">>,
          <<"running", "succeeded">>, <<"running", "failed">>}

Init ==
    /\ status = [c \in Commands |-> "none"]
    /\ achieved = {}

\* The Panel moves a command on.
Move(c, to) ==
    /\ <<status[c], to>> \in Moves
    /\ to = "succeeded" => c \in achieved
    /\ status' = [status EXCEPT ![c] = to]
    /\ UNCHANGED achieved

\* The Agent's handler succeeds.
Achieve(c) ==
    /\ status[c] # "none"
    /\ achieved' = achieved \cup {c}
    /\ UNCHANGED status

Next ==
    \E c \in Commands :
        \/ \E to \in {"queued", "dispatched", "accepted", "running",
                      "succeeded", "failed", "expired"} : Move(c, to)
        \/ Achieve(c)

Spec == Init /\ [][Next]_lifecycleVars
=============================================================================
