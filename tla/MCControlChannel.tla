-------------------------- MODULE MCControlChannel --------------------------
(* Instances of ControlChannel for TLC. *)
EXTENDS ControlChannel

\* Handlers succeed, fail or ask to be resumed.
AnyOutcome == Outcomes
=============================================================================
