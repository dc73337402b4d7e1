---------------------------- MODULE ControlProto ----------------------------
(***************************************************************************)
(* What Panel and Agent exchange on the control channel                    *)
(* (internal/controlproto): commands and command results.                  *)
(*                                                                         *)
(* A command is represented by its sequence number: the Panel allocates    *)
(* one number per command and Agent, so identifier, digest and sequence    *)
(* stand for each other.  A result is its state and its code.              *)
(***************************************************************************)
EXTENDS Integers

CONSTANT MaxCommand      \* commands carry the sequence numbers 1..MaxCommand

ASSUME MaxCommandAssumption == MaxCommand \in Nat

Commands == 1..MaxCommand

Succeeded == [state |-> "succeeded", code |-> "succeeded"]
HandlerFailed == [state |-> "failed", code |-> "handler_failed"]
Staged == [state |-> "running", code |-> "upgrade_staged"]

\* What a handler may return; Staged stands for a Pending outcome.
Outcomes == {Succeeded, HandlerFailed, Staged}

RefusalCodes == {"invalid_command", "invalid_signature", "wrong_agent",
                 "issued_in_future", "expired", "stale_sequence",
                 "unsupported_action", "state_write_failed",
                 "command_backpressure"}

FailedResult(code) == [state |-> "failed", code |-> code]

\* What an Agent may send in a command_result message.
Results == Outcomes \cup {FailedResult(code) : code \in RefusalCodes}

\* The absence of a record or of a result.
NoRecord == [state |-> "none", code |-> ""]

Terminal(r) == r.state \in {"succeeded", "failed"}
=============================================================================
