--------------------------- MODULE CommandExecutor ---------------------------
(***************************************************************************)
(* The Agent's command executor (internal/agent/commands.go): the durable  *)
(* dedupe state in command-state.json, the in-memory copy of it, and the   *)
(* workers (one per control session, internal/agent/control.go) that call  *)
(* Execute and serialize on executeMu.                                     *)
(***************************************************************************)
EXTENDS ControlProto, FiniteSets

CONSTANTS
    Workers,         \* callers of Execute: the worker goroutine of each session
    MaxRecords,      \* records kept by trimRecords (256 in the code)
    Unverifiable,    \* commands that fail the checks made before the lock
    Unsupported,     \* commands whose action has no handler in this Agent
    Skewed,          \* commands the Agent's clock may place in the future
    DiskMayFail,     \* whether persist may return an error
    HandlerOutcomes  \* the outcomes the handlers of this instance may have

ASSUME MaxRecordsAssumption == MaxRecords \in Nat \ {0}
ASSUME HandlerOutcomesAssumption == HandlerOutcomes \subseteq Outcomes

VARIABLES
    mem,      \* e.state: the records, HighestSeen and HighestCompleted
    disk,     \* the same, as command-state.json holds it
    work,     \* for each worker, where its call of Execute is
    late,     \* commands whose ExpiresAt has passed on the Agent's clock
    settled,  \* history: commands whose terminal record has been on disk
    entered,  \* history: commands whose handler was entered in this life of the
              \* process and did not come back with a Pending outcome
    won       \* history: commands whose handler has returned success

execVars == <<mem, disk, work, late, settled, entered, won>>

-----------------------------------------------------------------------------
AcceptedRecord == [state |-> "accepted", code |-> "accepted"]
RunningRecord == [state |-> "running", code |-> "running"]

Records == Outcomes \cup {NoRecord, AcceptedRecord, RunningRecord}

States == [rec: [Commands -> Records],
           seen: 0..MaxCommand,
           done: 0..MaxCommand]

Idle == [pc |-> "idle", cmd |-> 0, res |-> NoRecord]

Works == [pc: {"idle", "waiting", "resume", "running", "answer"},
          cmd: 0..MaxCommand,
          res: Results \cup {NoRecord}]

-----------------------------------------------------------------------------
\* trimRecords: the MaxRecords records with the highest sequence stay.
TrimRecords(rec) ==
    [c \in Commands |->
        IF Cardinality({d \in Commands : d > c /\ rec[d] # NoRecord}) < MaxRecords
        THEN rec[c]
        ELSE NoRecord]

\* Mutant: an error of the write is swallowed.
PersistOutcomesUnchecked ==
    {[ok |-> TRUE, written |-> TRUE], [ok |-> TRUE, written |-> FALSE]}

\* The outcomes of persist: success; an error before the rename, which leaves
\* the old file; an error of the directory sync, after the new file is in place.
PersistOutcomes ==
    {[ok |-> TRUE, written |-> TRUE]} \cup
    IF DiskMayFail
    THEN {[ok |-> FALSE, written |-> FALSE], [ok |-> FALSE, written |-> TRUE]}
    ELSE {}

\* persist: the whole state is written, or the file stays as it was.
Persist(state, p) ==
    /\ disk' = IF p.written THEN state ELSE disk
    /\ settled' = settled \cup {c \in Commands : Terminal(disk'.rec[c])}

Answer(w, result) == work' = [work EXCEPT ![w].pc = "answer", ![w].res = result]

\* executeMu is held from the end of the waiting until Execute returns.
ExecuteMuFree == \A w \in Workers : work[w].pc \notin {"resume", "running"}

\* Mutant: sequences are not compared.
RefusalUnsequenced(c, ahead) ==
    CASE ahead -> "issued_in_future"
      [] ~ahead /\ c \in late -> "expired"
      [] ~ahead /\ c \notin late /\ c \in Unsupported -> "unsupported_action"
      [] OTHER -> ""

\* The first check of a fresh command that fails, "" when they all pass.
Refusal(c, ahead) ==
    CASE ahead -> "issued_in_future"
      [] ~ahead /\ c \in late -> "expired"
      [] ~ahead /\ c \notin late /\ c <= mem.seen -> "stale_sequence"
      [] ~ahead /\ c \notin late /\ c > mem.seen /\ c \in Unsupported -> "unsupported_action"
      [] OTHER -> ""

Ahead(c) == IF c \in Skewed THEN BOOLEAN ELSE {FALSE}

\* The state Execute persists when it accepts a fresh command.
AcceptedState(c) ==
    [rec |-> TrimRecords([mem.rec EXCEPT ![c] = AcceptedRecord]), seen |-> c, done |-> mem.done]

\* The state resumeLocked persists when the handler has returned.
OutcomeState(c, o) ==
    [rec |-> [mem.rec EXCEPT ![c] = o],
     seen |-> mem.seen,
     done |-> IF Terminal(o) /\ c > mem.done THEN c ELSE mem.done]

-----------------------------------------------------------------------------
ExecInit ==
    /\ mem = [rec |-> [c \in Commands |-> NoRecord], seen |-> 0, done |-> 0]
    /\ disk = mem
    /\ work = [w \in Workers |-> Idle]
    /\ late = {}
    /\ settled = {}
    /\ entered = {}
    /\ won = {}

\* A worker takes a command from its queue and calls Execute.
Call(w, c) ==
    /\ work[w].pc = "idle"
    /\ work' = [work EXCEPT ![w] = [pc |-> "waiting", cmd |-> c, res |-> NoRecord]]
    /\ UNCHANGED <<mem, disk, late, settled, entered, won>>

\* The envelope, signature and target checks made before the lock.
RejectEnvelope(w) ==
    /\ work[w].pc = "waiting"
    /\ work[w].cmd \in Unverifiable
    /\ \E code \in {"invalid_command", "invalid_signature", "wrong_agent"} :
          Answer(w, FailedResult(code))
    /\ UNCHANGED <<mem, disk, late, settled, entered, won>>

Locks(w) ==
    /\ work[w].pc = "waiting"
    /\ work[w].cmd \notin Unverifiable
    /\ ExecuteMuFree

\* A record with a terminal state answers a duplicate.
ReturnPrior(w) ==
    /\ Locks(w)
    /\ Terminal(mem.rec[work[w].cmd])
    /\ Answer(w, mem.rec[work[w].cmd])
    /\ UNCHANGED <<mem, disk, late, settled, entered, won>>

\* A record that is not terminal is resumed, if its action has a handler.
Resume(w) ==
    /\ Locks(w)
    /\ mem.rec[work[w].cmd] # NoRecord
    /\ ~Terminal(mem.rec[work[w].cmd])
    /\ IF work[w].cmd \in Unsupported
       THEN Answer(w, FailedResult("unsupported_action"))
       ELSE work' = [work EXCEPT ![w].pc = "resume"]
    /\ UNCHANGED <<mem, disk, late, settled, entered, won>>

\* A command without a record fails one of the checks.
Refuse(w) ==
    /\ Locks(w)
    /\ mem.rec[work[w].cmd] = NoRecord
    /\ \E ahead \in Ahead(work[w].cmd) :
          /\ Refusal(work[w].cmd, ahead) # ""
          /\ Answer(w, FailedResult(Refusal(work[w].cmd, ahead)))
    /\ UNCHANGED <<mem, disk, late, settled, entered, won>>

\* A fresh command is recorded as accepted.  When persist fails the command is
\* answered as failed, and the record stays in memory.
Accept(w) ==
    LET c == work[w].cmd
    IN  /\ Locks(w)
        /\ mem.rec[c] = NoRecord
        /\ \E ahead \in Ahead(c) : Refusal(c, ahead) = ""
        /\ mem' = AcceptedState(c)
        /\ \E p \in PersistOutcomes :
              /\ Persist(AcceptedState(c), p)
              /\ IF p.ok
                 THEN work' = [work EXCEPT ![w].pc = "resume"]
                 ELSE Answer(w, FailedResult("state_write_failed"))
        /\ UNCHANGED <<late, entered, won>>

\* resumeLocked up to the call of the handler: the record becomes running on
\* disk first.  When persist fails memory goes back to the previous record.
EnterHandler(w) ==
    LET c == work[w].cmd
        running == [mem EXCEPT !.rec = [@ EXCEPT ![c] = RunningRecord]]
    IN  /\ work[w].pc = "resume"
        /\ \E p \in PersistOutcomes :
              /\ Persist(running, p)
              /\ IF p.ok
                 THEN /\ mem' = running
                      /\ work' = [work EXCEPT ![w].pc = "running"]
                      /\ entered' = entered \cup {c}
                 ELSE /\ Answer(w, FailedResult("state_write_failed"))
                      /\ UNCHANGED <<mem, entered>>
        /\ UNCHANGED <<late, won>>

\* Mutant: a failed write takes the outcome back, as EnterHandler takes back its mark.
LeaveHandlerRestoring(w) ==
    LET c == work[w].cmd
    IN  /\ work[w].pc = "running"
        /\ \E o \in HandlerOutcomes, p \in PersistOutcomes :
              /\ mem' = IF p.ok THEN OutcomeState(c, o) ELSE mem
              /\ Persist(OutcomeState(c, o), p)
              /\ Answer(w, IF p.ok THEN o ELSE FailedResult("state_write_failed"))
              /\ entered' = IF o = Staged THEN entered \ {c} ELSE entered
              /\ won' = IF o = Succeeded THEN won \cup {c} ELSE won
        /\ UNCHANGED late

\* The handler returns, and resumeLocked records its outcome.  When persist
\* fails the answer is a failure and memory keeps the outcome.
LeaveHandler(w) ==
    LET c == work[w].cmd
    IN  /\ work[w].pc = "running"
        /\ \E o \in HandlerOutcomes, p \in PersistOutcomes :
              /\ mem' = OutcomeState(c, o)
              /\ Persist(OutcomeState(c, o), p)
              /\ Answer(w, IF p.ok THEN o ELSE FailedResult("state_write_failed"))
              /\ entered' = IF o = Staged THEN entered \ {c} ELSE entered
              /\ won' = IF o = Succeeded THEN won \cup {c} ELSE won
        /\ UNCHANGED late

\* Execute returns its result to the worker, which asks for the next command.
Return(w) ==
    /\ work[w].pc = "answer"
    /\ work' = [work EXCEPT ![w] = Idle]
    /\ UNCHANGED <<mem, disk, late, settled, entered, won>>

\* The process dies; the next one loads command-state.json.
AgentCrash ==
    /\ mem' = disk
    /\ work' = [w \in Workers |-> Idle]
    /\ entered' = {}
    /\ UNCHANGED <<disk, late, settled, won>>

\* The Agent's clock passes a command's ExpiresAt.
Elapse(c) ==
    /\ c \notin late
    /\ late' = late \cup {c}
    /\ UNCHANGED <<mem, disk, work, settled, entered, won>>

\* A step of the call of Execute a worker has under way.
ExecuteStep(w) ==
    \/ RejectEnvelope(w)
    \/ ReturnPrior(w)
    \/ Resume(w)
    \/ Refuse(w)
    \/ Accept(w)
    \/ EnterHandler(w)
    \/ LeaveHandler(w)

\* The control channel may deliver any command to any session, in any order,
\* any number of times.
ExecNext ==
    \/ \E w \in Workers :
          \/ \E c \in Commands : Call(w, c)
          \/ ExecuteStep(w)
          \/ Return(w)
    \/ AgentCrash
    \/ \E c \in Commands : Elapse(c)

ExecSpec == ExecInit /\ [][ExecNext]_execVars

-----------------------------------------------------------------------------
\* Type correctness of the executor's state.
ExecTypeOK ==
    /\ mem \in States
    /\ disk \in States
    /\ work \in [Workers -> Works]
    /\ late \subseteq Commands
    /\ settled \subseteq Commands
    /\ entered \subseteq Commands
    /\ won \subseteq Commands

\* "A duplicate command returns the durable prior result without executing
\* again": once a terminal record of a command has been on disk, its handler
\* does not run again, through crashes, failed writes, trimmed records and any
\* order of redelivery.
SettledNeverRuns ==
    \A w \in Workers : work[w].pc = "running" => work[w].cmd \notin settled

\* executeMu: two sessions of one Agent process never run handlers at the
\* same time, nor does one change the records while another one's handler runs.
OneHandlerAtATime ==
    \A v, w \in Workers :
        /\ work[v].pc \in {"resume", "running"}
        /\ work[w].pc \in {"resume", "running"}
        => v = w

\* resumeLocked keeps the index of its record across the unlocked handler
\* call; the record is still there, running, when the handler returns.
RunningHasRecord ==
    \A w \in Workers :
        work[w].pc = "running" =>
            /\ mem.rec[work[w].cmd] = RunningRecord
            /\ disk.rec[work[w].cmd] = RunningRecord

\* A handler that was entered, and did not ask to be resumed, is not entered
\* again before the process dies, also when its outcome could not be written:
\* the records in memory stop the redelivery that the failed answer provokes.
RunsOncePerLife ==
    [][\A w \in Workers :
          work[w].pc = "resume" /\ work'[w].pc = "running" => work[w].cmd \notin entered
      ]_execVars
=============================================================================
