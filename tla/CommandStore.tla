---------------------------- MODULE CommandStore ----------------------------
(***************************************************************************)
(* The Panel's command table (internal/panel/command/store.go): one row    *)
(* per command of an Agent, with its lifecycle state and its result.       *)
(* Every operator here is one SQLite transaction or one query, serialized  *)
(* by Store.mu; what the Panel's goroutines do between two of them is in   *)
(* ControlChannel.                                                         *)
(***************************************************************************)
EXTENDS ControlProto

VARIABLE row      \* agent_commands: the state and the result of each command

RowStates == {"queued", "dispatched", "accepted", "running",
              "succeeded", "failed", "expired"}

\* The result the dispatcher records when the creator lost the role.
AuthorizationRevoked == [state |-> "failed", code |-> "authorization_revoked"]

Rows == [state: RowStates \cup {"none"},
         res: Results \cup {NoRecord, AuthorizationRevoked}]

NoRow == [state |-> "none", res |-> NoRecord]

StoreInit == row = [c \in Commands |-> NoRow]

\* CreateBatch: the next sequence of the Agent is one above the highest row.
Create(c) ==
    /\ row[c].state = "none"
    /\ \A d \in Commands : d < c => row[d].state # "none"
    /\ row' = [row EXCEPT ![c] = [state |-> "queued", res |-> NoRecord]]

\* Mutant: a late result revives an expired command.
AllowedTransitionReviving(from, to) ==
    \/ from = "queued" /\ to \in {"dispatched", "failed", "expired"}
    \/ from \in {"dispatched", "expired"} /\ to \in {"accepted", "failed", "expired"}
    \/ from = "accepted" /\ to \in {"running", "failed", "expired"}
    \/ from = "running" /\ to \in {"succeeded", "failed"}

AllowedTransition(from, to) ==
    \/ from = "queued" /\ to \in {"dispatched", "failed", "expired"}
    \/ from = "dispatched" /\ to \in {"accepted", "failed", "expired"}
    \/ from = "accepted" /\ to \in {"running", "failed", "expired"}
    \/ from = "running" /\ to \in {"succeeded", "failed"}

\* Transition, when the row may move; the result is kept with a terminal state.
Transition(c, to, res) ==
    /\ AllowedTransition(row[c].state, to)
    /\ row' = [row EXCEPT ![c].state = to,
                          ![c].res = IF to \in {"succeeded", "failed"} THEN res ELSE @]

\* The commands Expire selects, given those whose ExpiresAt has passed.
Expirable(late) == {c \in late : row[c].state \in {"queued", "dispatched"}}

\* Mutant: a dispatched command is not sent again.
QueuedForOnce(late) ==
    {c \in Commands : \/ row[c].state = "queued" /\ c \notin late
                      \/ row[c].state \in {"accepted", "running"}}

\* The commands QueuedFor selects.
QueuedFor(late) ==
    {c \in Commands : \/ row[c].state \in {"queued", "dispatched"} /\ c \notin late
                      \/ row[c].state \in {"accepted", "running"}}
=============================================================================
