------------------------ MODULE ControlChannelProofs ------------------------
(***************************************************************************)
(* Proofs about ControlChannel, for any number of commands and sessions,   *)
(* any channel sizes and all faults: its state has its type, a command     *)
(* shown as succeeded did succeed, and the channel implements              *)
(* CommandLifecycle.                                                       *)
(***************************************************************************)
EXTENDS ControlChannel, CommandExecutorProofs, SequenceTheorems

\* The commands the Panel has committed.
IssuedCommands == {c \in Commands : row[c].state # "none"}

\* A result that reports success comes from a handler that succeeded.
Honest(c, r, done) == r.state = "succeeded" => c \in done

HonestMessages == {m \in Messages : Honest(m.cmd, m.res, won)}

\* The goroutines of the Panel work on committed commands and honest results.
PanelInv ==
    /\ row \in [Commands -> Rows]
    /\ thread \in [Threads -> ThreadStates]
    /\ hub \in Sessions \cup {0}
    /\ creator \in Creators
    /\ \A t \in Threads :
          /\ thread[t].todo \subseteq IssuedCommands
          /\ thread[t].pc \in {"mark", "apply"} => thread[t].cmd \in IssuedCommands
          /\ thread[t].pc = "apply" => /\ thread[t].res \in Results
                                       /\ Honest(thread[t].cmd, thread[t].res, won)
    /\ \A c \in Commands : row[c].state = "succeeded" => c \in won

\* Only committed commands and honest results travel.
NetInv ==
    /\ outbound \in [Sessions -> Seq(IssuedCommands)]
    /\ queue \in [Sessions -> Seq(IssuedCommands)]
    /\ upstream \in [Sessions -> Seq(HonestMessages)]
    /\ link \in [Sessions -> {"new", "open", "closed"}]

\* The Agent's records and answers are honest, its calls for committed commands.
AgentInv ==
    /\ SettledInv
    /\ \A c \in Commands : Honest(c, mem.rec[c], won) /\ Honest(c, disk.rec[c], won)
    /\ \A w \in Workers :
          /\ work[w].pc # "idle" => work[w].cmd \in IssuedCommands
          /\ work[w].pc = "answer" => /\ work[w].res \in Results
                                      /\ Honest(work[w].cmd, work[w].res, won)
    /\ won \subseteq IssuedCommands

ChanInv == PanelInv /\ NetInv /\ AgentInv

-----------------------------------------------------------------------------
\* Sequences over a set are sequences over any larger one.
LEMMA SeqMonotone ==
    ASSUME NEW S, NEW T, S \subseteq T
    PROVE  Seq(S) \subseteq Seq(T)
  OBVIOUS

\* Results and rows never carry the state a command has before its creation.
LEMMA StateFacts ==
    /\ \A r \in Results : r.state \in {"running", "succeeded", "failed"}
    /\ NoRecord.state = "none" /\ AuthorizationRevoked.state = "failed"
    /\ \A code : FailedResult(code).state = "failed"
    /\ Succeeded.state = "succeeded" /\ AcceptedRecord.state = "accepted"
    /\ RunningRecord.state = "running"
  BY DEF Results, Outcomes, Succeeded, HandlerFailed, Staged, FailedResult, NoRecord,
         AuthorizationRevoked, AcceptedRecord, RunningRecord

\* Nothing has been created, sent or run.
LEMMA ChanInitInv == ChanInit => ChanInv
  <1> SUFFICES ASSUME ChanInit PROVE ChanInv
    OBVIOUS
  <1> USE DEF ChanInit
  <1>1. NoRow \in Rows /\ NoRow.state = "none"
    BY DEF NoRow, Rows
  <1>2. Thread("off") \in ThreadStates /\ Thread("off").pc = "off" /\ Thread("off").todo = {}
    BY MaxCommandAssumption DEF Thread, ThreadStates
  <1>3. PanelInv
    BY <1>1, <1>2 DEF StoreInit, PanelInv, Creators
  <1>4. NetInv
    BY DEF NetInv
  <1>5. AgentInv
    <2>1. SettledInv
      BY SettledInit
    <2>2. \A c \in Commands : mem.rec[c] = NoRecord /\ disk.rec[c] = NoRecord
      BY DEF ExecInit
    <2>3. \A w \in Workers : work[w].pc = "idle"
      BY DEF ExecInit, Idle
    <2> QED BY <2>1, <2>2, <2>3, StateFacts DEF AgentInv, ExecInit, Honest
  <1> QED BY <1>3, <1>4, <1>5 DEF ChanInv

-----------------------------------------------------------------------------
(* Steps of the Agent *)

\* More successes and more committed commands keep what travels in order.
LEMMA NetFrame ==
    ASSUME NetInv, UNCHANGED netVars, won \subseteq won', IssuedCommands \subseteq IssuedCommands'
    PROVE  NetInv'
  <1>1. HonestMessages \subseteq HonestMessages'
    BY DEF HonestMessages, Honest
  <1>2. /\ Seq(IssuedCommands) \subseteq Seq(IssuedCommands')
        /\ Seq(HonestMessages) \subseteq Seq(HonestMessages')
    BY <1>1, SeqMonotone
  <1> QED BY <1>2 DEF NetInv, netVars

\* Steps of the Agent alone: what the Panel holds stays true as won grows.
LEMMA PanelFrame ==
    ASSUME PanelInv, UNCHANGED panelVars, won \subseteq won'
    PROVE  PanelInv'
  BY DEF PanelInv, panelVars, IssuedCommands, Honest

\* Issued commands stay issued while the rows stay.
LEMMA IssuedFrame ==
    ASSUME UNCHANGED panelVars PROVE IssuedCommands' = IssuedCommands
  BY DEF panelVars, IssuedCommands

\* A call of Execute answers without touching the records.
LEMMA HonestAnswer ==
    ASSUME AgentInv, SettledInv', NEW w \in Workers, work[w].pc # "idle",
           NEW r \in Results, Answer(w, r), Honest(work[w].cmd, r, won),
           UNCHANGED <<mem, disk, won>>, IssuedCommands' = IssuedCommands
    PROVE  AgentInv'
  <1>1. \A v \in Workers \ {w} : work'[v] = work[v]
    BY DEF Answer, AgentInv, SettledInv, ExecTypeOK
  <1>2. work'[w].pc = "answer" /\ work'[w].cmd = work[w].cmd /\ work'[w].res = r
    BY DEF Answer, AgentInv, SettledInv, ExecTypeOK, Works
  <1>3. \A v \in Workers :
          /\ work'[v].pc # "idle" => work'[v].cmd \in IssuedCommands'
          /\ work'[v].pc = "answer" => work'[v].res \in Results /\ Honest(work'[v].cmd, work'[v].res, won')
    BY <1>1, <1>2 DEF AgentInv, Honest
  <1>4. \A c \in Commands : Honest(c, mem'.rec[c], won') /\ Honest(c, disk'.rec[c], won')
    BY DEF AgentInv, Honest
  <1>5. won' \subseteq IssuedCommands'
    BY DEF AgentInv
  <1> QED BY <1>3, <1>4, <1>5 DEF AgentInv

\* A step that records honestly and moves the call of one worker on.
LEMMA HonestRecord ==
    ASSUME AgentInv, SettledInv', NEW w \in Workers, NEW c \in Commands,
           c = work[w].cmd, work[w].pc # "idle",
           \A v \in Workers \ {w} : work'[v] = work[v],
           work'[w].cmd = c, work'[w].pc # "idle",
           work'[w].pc = "answer" => work'[w].res \in Results /\ Honest(c, work'[w].res, won'),
           won \subseteq won', won' \subseteq won \cup {c},
           \A d \in Commands : Honest(d, mem'.rec[d], won') /\ Honest(d, disk'.rec[d], won'),
           IssuedCommands' = IssuedCommands
    PROVE  AgentInv'
  <1>1. \A v \in Workers :
          /\ work'[v].pc # "idle" => work'[v].cmd \in IssuedCommands'
          /\ work'[v].pc = "answer" => work'[v].res \in Results /\ Honest(work'[v].cmd, work'[v].res, won')
    BY DEF AgentInv, Honest
  <1>2. won' \subseteq IssuedCommands'
    BY DEF AgentInv
  <1> QED BY <1>1, <1>2 DEF AgentInv

\* Each step of Execute keeps the records and answers of the Agent honest.
LEMMA ExecuteHonest ==
    ASSUME AgentInv, NEW w \in Workers, ExecuteStep(w), IssuedCommands' = IssuedCommands
    PROVE  AgentInv' /\ won \subseteq won'
  <1>0. SettledInv'
    BY SettledNext DEF AgentInv, ExecNext
  <1>1. CASE RejectEnvelope(w)
    <2>1. PICK code \in {"invalid_command", "invalid_signature", "wrong_agent"} :
              Answer(w, FailedResult(code))
      BY <1>1 DEF RejectEnvelope
    <2>2. FailedResult(code) \in Results /\ Honest(work[w].cmd, FailedResult(code), won)
      BY FailedResults, StateFacts DEF RefusalCodes, Honest
    <2> QED BY <1>0, <1>1, <2>1, <2>2, HonestAnswer DEF RejectEnvelope
  <1>2. CASE ReturnPrior(w)
    <2>1. work[w].pc = "waiting" /\ work[w].cmd \in Commands
      BY <1>2 DEF ReturnPrior, Locks, AgentInv, IssuedCommands
    <2>2. mem.rec[work[w].cmd] \in Records
      BY <2>1 DEF AgentInv, SettledInv, ExecTypeOK, States
    <2>3. mem.rec[work[w].cmd] \in Results /\ Honest(work[w].cmd, mem.rec[work[w].cmd], won)
      BY <1>2, <2>1, <2>2, RecordFacts DEF ReturnPrior, AgentInv
    <2> QED BY <1>0, <1>2, <2>1, <2>3, HonestAnswer DEF ReturnPrior
  <1>3. CASE Resume(w)
    <2>1. CASE work[w].cmd \in Unsupported
      <3>1. FailedResult("unsupported_action") \in Results
            /\ Honest(work[w].cmd, FailedResult("unsupported_action"), won)
        BY FailedResults, StateFacts DEF RefusalCodes, Honest
      <3> QED BY <1>0, <1>3, <2>1, <3>1, HonestAnswer DEF Resume, Locks
    <2>2. CASE work[w].cmd \notin Unsupported
      <3>1. work' = [work EXCEPT ![w].pc = "resume"]
        BY <1>3, <2>2 DEF Resume
      <3>2. /\ work'[w].cmd = work[w].cmd /\ work'[w].pc = "resume"
            /\ \A v \in Workers \ {w} : work'[v] = work[v]
        BY <3>1 DEF AgentInv, SettledInv, ExecTypeOK, Works
      <3>3. work[w].pc = "waiting" /\ work[w].cmd \in Commands
        BY <1>3 DEF Resume, Locks, AgentInv, IssuedCommands
      <3>4. \A d \in Commands : Honest(d, mem'.rec[d], won') /\ Honest(d, disk'.rec[d], won')
        BY <1>3 DEF Resume, AgentInv, Honest
      <3>5. won' = won
        BY <1>3 DEF Resume
      <3> QED BY <1>0, <3>2, <3>3, <3>4, <3>5, HonestRecord
    <2> QED BY <2>1, <2>2
  <1>4. CASE Refuse(w)
    <2>1. PICK ahead \in Ahead(work[w].cmd) :
              /\ Refusal(work[w].cmd, ahead) # ""
              /\ Answer(w, FailedResult(Refusal(work[w].cmd, ahead)))
      BY <1>4 DEF Refuse
    <2>2. Refusal(work[w].cmd, ahead) \in RefusalCodes
      BY <2>1 DEF Refusal, RefusalCodes
    <2>3. /\ FailedResult(Refusal(work[w].cmd, ahead)) \in Results
          /\ Honest(work[w].cmd, FailedResult(Refusal(work[w].cmd, ahead)), won)
      BY <2>2, FailedResults, StateFacts DEF Honest
    <2> QED BY <1>0, <1>4, <2>1, <2>3, HonestAnswer DEF Refuse, Locks
  <1>5. CASE Accept(w)
    <2> DEFINE c == work[w].cmd
               rec == [mem.rec EXCEPT ![c] = AcceptedRecord]
               accepted == [rec |-> TrimRecords(rec), seen |-> c, done |-> mem.done]
               failed == FailedResult("state_write_failed")
    <2>1. PICK p \in PersistOutcomes :
              /\ Persist(accepted, p)
              /\ IF p.ok
                 THEN work' = [work EXCEPT ![w].pc = "resume"]
                 ELSE Answer(w, failed)
      BY <1>5 DEF Accept, AcceptedState
    <2>2. work[w].pc = "waiting" /\ c \in Commands /\ work[w] \in Works
      BY <1>5 DEF Accept, Locks, AgentInv, IssuedCommands, SettledInv, ExecTypeOK
    <2>3. rec \in [Commands -> Records] /\ \A d \in Commands : Honest(d, rec[d], won)
      BY <2>2, StateFacts DEF AgentInv, SettledInv, ExecTypeOK, States, Records, Honest
    <2>4. \A d \in Commands : TrimRecords(rec)[d] \in {rec[d], NoRecord}
      BY <2>3, TrimForgets
    <2>5. \A d \in Commands : Honest(d, accepted.rec[d], won)
      BY <2>3, <2>4, StateFacts DEF Honest
    <2>6. won' = won /\ mem' = accepted /\ disk' \in {accepted, disk}
      BY <1>5, <2>1, PersistFacts DEF Accept, AcceptedState
    <2>7. \A d \in Commands : Honest(d, mem'.rec[d], won') /\ Honest(d, disk'.rec[d], won')
      BY <2>5, <2>6 DEF AgentInv
    <2>8. failed \in Results /\ Honest(c, failed, won')
      BY FailedResults, StateFacts DEF RefusalCodes, Honest
    <2> HIDE DEF accepted, rec, failed
    <2>9. /\ work'[w].cmd = c /\ work'[w].pc # "idle"
          /\ work'[w].pc = "answer" => work'[w].res \in Results /\ Honest(c, work'[w].res, won')
          /\ \A v \in Workers \ {w} : work'[v] = work[v]
      BY <2>1, <2>2, <2>8 DEF Answer, AgentInv, SettledInv, ExecTypeOK, Works
    <2> QED BY <1>0, <2>2, <2>6, <2>7, <2>9, HonestRecord
  <1>6. CASE EnterHandler(w)
    <2> DEFINE c == work[w].cmd
               running == [mem EXCEPT !.rec = [@ EXCEPT ![c] = RunningRecord]]
               failed == FailedResult("state_write_failed")
    <2>1. PICK p \in PersistOutcomes :
              /\ Persist(running, p)
              /\ IF p.ok
                 THEN /\ mem' = running
                      /\ work' = [work EXCEPT ![w].pc = "running"]
                      /\ entered' = entered \cup {c}
                 ELSE /\ Answer(w, failed)
                      /\ UNCHANGED <<mem, entered>>
      BY <1>6 DEF EnterHandler
    <2>2. work[w].pc = "resume" /\ c \in Commands /\ work[w] \in Works
      BY <1>6 DEF EnterHandler, AgentInv, IssuedCommands, SettledInv, ExecTypeOK
    <2>3. running.rec = [mem.rec EXCEPT ![c] = RunningRecord]
      BY DEF AgentInv, SettledInv, ExecTypeOK, States
    <2>4. \A d \in Commands : Honest(d, running.rec[d], won)
      BY <2>2, <2>3, StateFacts DEF AgentInv, SettledInv, ExecTypeOK, States, Honest
    <2>5. won' = won /\ mem' \in {running, mem} /\ disk' \in {running, disk}
      BY <1>6, <2>1, PersistFacts DEF EnterHandler
    <2>6. \A d \in Commands : Honest(d, mem'.rec[d], won') /\ Honest(d, disk'.rec[d], won')
      BY <2>4, <2>5 DEF AgentInv
    <2>7. failed \in Results /\ Honest(c, failed, won')
      BY FailedResults, StateFacts DEF RefusalCodes, Honest
    <2> HIDE DEF running, failed
    <2>8. /\ work'[w].cmd = c /\ work'[w].pc # "idle"
          /\ work'[w].pc = "answer" => work'[w].res \in Results /\ Honest(c, work'[w].res, won')
          /\ \A v \in Workers \ {w} : work'[v] = work[v]
      BY <2>1, <2>2, <2>7 DEF Answer, AgentInv, SettledInv, ExecTypeOK, Works
    <2> QED BY <1>0, <2>2, <2>5, <2>6, <2>8, HonestRecord
  <1>7. CASE LeaveHandler(w)
    <2> DEFINE c == work[w].cmd
               Recorded(o) ==
                   [rec |-> [mem.rec EXCEPT ![c] = o],
                    seen |-> mem.seen,
                    done |-> IF Terminal(o) /\ c > mem.done THEN c ELSE mem.done]
               failed == FailedResult("state_write_failed")
    <2>1. PICK o \in HandlerOutcomes, p \in PersistOutcomes :
              /\ mem' = Recorded(o)
              /\ Persist(Recorded(o), p)
              /\ Answer(w, IF p.ok THEN o ELSE failed)
              /\ won' = IF o = Succeeded THEN won \cup {c} ELSE won
      BY <1>7 DEF LeaveHandler, OutcomeState
    <2> DEFINE st == Recorded(o)
               r == IF p.ok THEN o ELSE failed
    <2>2. work[w].pc = "running" /\ c \in Commands /\ work[w] \in Works
      BY <1>7 DEF LeaveHandler, AgentInv, IssuedCommands, SettledInv, ExecTypeOK
    <2>3. o \in Outcomes /\ (o.state = "succeeded" => o = Succeeded)
      BY HandlerOutcomesAssumption DEF Outcomes, Succeeded, HandlerFailed, Staged
    <2>4. won \subseteq won' /\ won' \subseteq won \cup {c} /\ Honest(c, o, won')
      BY <2>1, <2>3 DEF Honest
    <2>5. \A d \in Commands : st.rec[d] = IF d = c THEN o ELSE mem.rec[d]
      BY <2>2 DEF AgentInv, SettledInv, ExecTypeOK, States
    <2>6. mem' = st /\ disk' \in {st, disk} /\ Answer(w, r)
      BY <2>1, PersistFacts
    <2>7. r \in Results /\ Honest(c, r, won')
      BY <2>3, <2>4, FailedResults, StateFacts DEF RefusalCodes, Honest, Results
    <2> HIDE DEF st, r, failed, Recorded
    <2>8. \A d \in Commands : Honest(d, mem'.rec[d], won') /\ Honest(d, disk'.rec[d], won')
      BY <2>4, <2>5, <2>6 DEF AgentInv, Honest
    <2>9. /\ work'[w].cmd = c /\ work'[w].pc = "answer" /\ work'[w].res = r
          /\ \A v \in Workers \ {w} : work'[v] = work[v]
      BY <2>2, <2>6 DEF Answer, AgentInv, SettledInv, ExecTypeOK, Works
    <2> QED BY <1>0, <2>2, <2>4, <2>7, <2>8, <2>9, HonestRecord
  <1> QED BY <1>1, <1>2, <1>3, <1>4, <1>5, <1>6, <1>7 DEF ExecuteStep

\* Steps that leave the Agent alone keep its part, as more commands are issued.
LEMMA AgentFrame ==
    ASSUME AgentInv, UNCHANGED execVars, IssuedCommands \subseteq IssuedCommands'
    PROVE  AgentInv' /\ won' = won
  <1>1. SettledInv'
    BY SettledNext DEF AgentInv
  <1> QED BY <1>1 DEF AgentInv, execVars, Honest

\* A worker of the Agent takes a command, executes, or returns a result.
LEMMA WorkerPreserves ==
    ASSUME ChanInv, NEW s \in Sessions, WorkerStep(s)
    PROVE  ChanInv'
  <1> USE DEF ChanInv
  <1>0. s \in Workers
    BY WorkersAssumption
  <1>1. CASE TakeCommand(s)
    <2>1. queue[s] \in Seq(IssuedCommands) /\ queue[s] # <<>>
      BY <1>1 DEF TakeCommand, NetInv
    <2>2. Head(queue[s]) \in IssuedCommands /\ Tail(queue[s]) \in Seq(IssuedCommands)
      BY <2>1
    <2>3. /\ UNCHANGED <<row, thread, hub, creator, outbound, link, upstream, won, mem, disk>>
          /\ queue' = [queue EXCEPT ![s] = Tail(@)]
          /\ Call(s, Head(queue[s]))
      BY <1>1 DEF TakeCommand, panelVars, Call
    <2>4. IssuedCommands' = IssuedCommands /\ HonestMessages' = HonestMessages
      BY <2>3 DEF IssuedCommands, HonestMessages
    <2>5. PanelInv'
      BY <2>3, PanelFrame DEF panelVars
    <2>6. NetInv'
      BY <2>2, <2>3, <2>4 DEF NetInv
    <2>7. SettledInv'
      BY <1>0, <2>2, <2>3, SettledNext DEF AgentInv, ExecNext, IssuedCommands
    <2>8. \A v \in Workers :
             work'[v] = IF v = s THEN [pc |-> "waiting", cmd |-> Head(queue[s]), res |-> NoRecord] ELSE work[v]
      BY <1>0, <2>3 DEF Call, AgentInv, SettledInv, ExecTypeOK
    <2>9. AgentInv'
      BY <2>2, <2>3, <2>4, <2>7, <2>8 DEF AgentInv
    <2> QED BY <2>5, <2>6, <2>9
  <1>2. CASE ExecuteCommand(s)
    <2>1. ExecuteStep(s) /\ UNCHANGED panelVars /\ UNCHANGED netVars
      BY <1>2 DEF ExecuteCommand
    <2>2. IssuedCommands' = IssuedCommands
      BY <2>1, IssuedFrame
    <2>3. AgentInv' /\ won \subseteq won'
      BY <1>0, <2>1, <2>2, ExecuteHonest
    <2> QED BY <2>1, <2>2, <2>3, PanelFrame, NetFrame
  <1>3. CASE ReturnResult(s)
    <2> DEFINE m == [cmd |-> work[s].cmd, res |-> work[s].res]
    <2>1. /\ UNCHANGED <<row, thread, hub, creator, outbound, link, queue, won, mem, disk>>
          /\ Return(s)
          /\ upstream' \in {upstream, [upstream EXCEPT ![s] = Append(@, m)]}
      BY <1>3 DEF ReturnResult, panelVars, Return
    <2>2. IssuedCommands' = IssuedCommands /\ HonestMessages' = HonestMessages
      BY <2>1 DEF IssuedCommands, HonestMessages
    <2>3. m \in HonestMessages
      BY <1>0, <2>1 DEF Return, AgentInv, HonestMessages, Messages, IssuedCommands
    <2> HIDE DEF m
    <2>4. NetInv'
      <3>1. upstream[s] \in Seq(HonestMessages)
        BY DEF NetInv
      <3>2. Append(upstream[s], m) \in Seq(HonestMessages)
        BY <2>3, <3>1
      <3>3. upstream' \in [Sessions -> Seq(HonestMessages)]
        BY <2>1, <3>2 DEF NetInv
      <3> QED BY <2>1, <2>2, <3>3 DEF NetInv
    <2>5. PanelInv'
      BY <2>1, PanelFrame DEF panelVars
    <2>6. SettledInv'
      BY <1>0, <2>1, SettledNext DEF AgentInv, ExecNext
    <2>7. \A v \in Workers : work'[v] = IF v = s THEN Idle ELSE work[v]
      BY <1>0, <2>1 DEF Return, AgentInv, SettledInv, ExecTypeOK
    <2>8. AgentInv'
      BY <2>1, <2>2, <2>6, <2>7 DEF AgentInv, Idle
    <2> QED BY <2>4, <2>5, <2>8
  <1> QED BY <1>1, <1>2, <1>3 DEF WorkerStep

-----------------------------------------------------------------------------
(* Steps of the Panel *)

RowResults == Results \cup {NoRecord, AuthorizationRevoked}

\* How a step may change the command table.
RowStep ==
    \/ row' = row
    \/ \E c \in Commands : Create(c)
    \/ \E c \in Commands, to \in RowStates, res \in RowResults :
          Transition(c, to, res) /\ (to = "succeeded" => c \in won)

\* What a transition does to the rows.
LEMMA TransitionFacts ==
    ASSUME PanelInv, NEW c \in Commands, NEW to \in RowStates, NEW res \in RowResults,
           Transition(c, to, res), to = "succeeded" => c \in won
    PROVE  /\ row' \in [Commands -> Rows]
           /\ IssuedCommands' = IssuedCommands
           /\ \A d \in Commands : row'[d].state = "succeeded" => d \in won
           /\ RowStep
  <1>1. row \in [Commands -> Rows]
    BY DEF PanelInv
  <1>2. /\ row'[c].state = to
        /\ row'[c] \in Rows
        /\ \A d \in Commands : d # c => row'[d] = row[d]
        /\ row' \in [Commands -> Rows]
    BY <1>1 DEF Transition, Rows, RowResults
  <1>3. row[c].state # "none" /\ to # "none"
    BY DEF Transition, AllowedTransition, RowStates
  <1>4. IssuedCommands' = IssuedCommands
    BY <1>2, <1>3 DEF IssuedCommands
  <1>5. \A d \in Commands : row'[d].state = "succeeded" => d \in won
    BY <1>2 DEF PanelInv
  <1> QED BY <1>2, <1>4, <1>5 DEF RowStep

\* What a goroutine's state must satisfy.
GoodThread(k) ==
    /\ k \in ThreadStates
    /\ k.todo \subseteq IssuedCommands
    /\ k.pc \in {"mark", "apply"} => k.cmd \in IssuedCommands
    /\ k.pc = "apply" => k.res \in Results /\ Honest(k.cmd, k.res, won)

\* The invariant, read as a fact about each thread.
LEMMA GoodThreads == PanelInv => \A t \in Threads : GoodThread(thread[t])
  BY DEF PanelInv, GoodThread

\* A thread that has just been started carries nothing.
LEMMA FreshThread ==
    ASSUME NEW pc \in {"off", "read", "end"} PROVE GoodThread(Thread(pc))
  BY MaxCommandAssumption DEF GoodThread, Thread, ThreadStates

\* The dispatch loop going round keeps a thread good.
LEMMA LoopThread ==
    ASSUME NEW t, NEW todo \in SUBSET IssuedCommands PROVE GoodThread(Loop(t, todo))
  <1>1. CASE todo = {}
    BY <1>1, FreshThread DEF Loop
  <1>2. CASE todo # {}
    <2>1. Loop(t, todo) = [pc |-> "each", todo |-> todo, cmd |-> 0, st |-> "none", res |-> NoRecord]
      BY <1>2 DEF Loop, Thread
    <2> QED BY <2>1, MaxCommandAssumption DEF GoodThread, ThreadStates, IssuedCommands
  <1> QED BY <1>1, <1>2

\* A thread that begins to dispatch is good.
LEMMA DispatchingThread ==
    ASSUME late \subseteq Commands PROVE GoodThread(Dispatching)
  <1>1. Dispatching = [pc |-> "expire", todo |-> Expirable(late), cmd |-> 0, st |-> "none", res |-> NoRecord]
    BY DEF Dispatching, Thread
  <1>2. Expirable(late) \in SUBSET IssuedCommands
    BY DEF Expirable, IssuedCommands
  <1> QED BY <1>1, <1>2, MaxCommandAssumption DEF GoodThread, ThreadStates, IssuedCommands

\* Dropping what some sessions carry leaves sequences of the same kind.
LEMMA DroppedNet ==
    ASSUME NEW S, NEW f \in [Sessions -> Seq(S)], NEW gone
    PROVE  Dropped(f, gone) \in [Sessions -> Seq(S)]
  BY DEF Dropped

\* The invariant after a step of the Panel, given the parts it changes.
LEMMA PanelStep ==
    ASSUME ChanInv, UNCHANGED execVars,
           row' \in [Commands -> Rows], IssuedCommands \subseteq IssuedCommands',
           \A d \in Commands : row'[d].state = "succeeded" => d \in won,
           thread' \in [Threads -> ThreadStates],
           \A t \in Threads : thread'[t] = thread[t] \/ GoodThread(thread'[t]),
           hub' \in Sessions \cup {0}, creator' \in Creators,
           outbound' \in [Sessions -> Seq(IssuedCommands)],
           queue' \in [Sessions -> Seq(IssuedCommands)],
           upstream' \in [Sessions -> Seq(HonestMessages)],
           link' \in [Sessions -> {"new", "open", "closed"}]
    PROVE  ChanInv'
  <1>1. AgentInv' /\ won' = won
    BY AgentFrame DEF ChanInv
  <1>2. HonestMessages' = HonestMessages
    BY <1>1 DEF HonestMessages
  <1>3. Seq(IssuedCommands) \subseteq Seq(IssuedCommands')
    BY SeqMonotone
  <1>4. NetInv'
    BY <1>2, <1>3 DEF NetInv
  <1>5. \A t \in Threads : GoodThread(thread'[t])
    BY GoodThreads DEF ChanInv
  <1>6. PanelInv'
    BY <1>1, <1>5 DEF PanelInv, GoodThread
  <1> QED BY <1>1, <1>4, <1>6 DEF ChanInv

\* The same for a step that moves one goroutine.
LEMMA ThreadStep ==
    ASSUME ChanInv, UNCHANGED execVars, NEW t \in Threads, NEW k,
           thread' = [thread EXCEPT ![t] = k], GoodThread(k),
           row' \in [Commands -> Rows], IssuedCommands \subseteq IssuedCommands',
           \A d \in Commands : row'[d].state = "succeeded" => d \in won,
           hub' \in Sessions \cup {0}, UNCHANGED <<creator, link, queue>>,
           outbound' \in [Sessions -> Seq(IssuedCommands)],
           upstream' \in [Sessions -> Seq(HonestMessages)]
    PROVE  ChanInv'
  <1>1. thread' \in [Threads -> ThreadStates]
    BY DEF ChanInv, PanelInv, GoodThread
  <1>2. \A u \in Threads : thread'[u] = thread[u] \/ GoodThread(thread'[u])
    BY DEF ChanInv, PanelInv
  <1> QED BY <1>1, <1>2, PanelStep DEF ChanInv, PanelInv, NetInv

\* The goroutine of t returns.
LEMMA EndsStep ==
    ASSUME ChanInv, UNCHANGED execVars, NEW t \in Threads, Ends(t),
           UNCHANGED <<row, creator, link, queue>>
    PROVE  ChanInv' /\ RowStep
  <1>1. GoodThread(Thread("end"))
    BY FreshThread
  <1>2. hub' \in Sessions \cup {0}
    BY DEF Ends, ChanInv, PanelInv
  <1>3. outbound' \in [Sessions -> Seq(IssuedCommands)] /\ upstream' \in [Sessions -> Seq(HonestMessages)]
    BY DroppedNet DEF Ends, ChanInv, NetInv
  <1>4. thread' = [thread EXCEPT ![t] = Thread("end")]
    BY DEF Ends
  <1>5. IssuedCommands' = IssuedCommands /\ row' \in [Commands -> Rows]
        /\ \A d \in Commands : row'[d].state = "succeeded" => d \in won
    BY DEF IssuedCommands, ChanInv, PanelInv
  <1> QED BY <1>1, <1>2, <1>3, <1>4, <1>5, ThreadStep DEF RowStep

\* While the rows stay, so do the issued commands and what is known of them.
LEMMA RowFrame ==
    ASSUME ChanInv, row' = row
    PROVE  /\ IssuedCommands' = IssuedCommands /\ row' \in [Commands -> Rows]
           /\ \A d \in Commands : row'[d].state = "succeeded" => d \in won
           /\ RowStep
  BY DEF IssuedCommands, ChanInv, PanelInv, RowStep

\* Creating a command.
LEMMA CreatePreserves ==
    ASSUME ChanInv, NEW c \in Commands, CreateCommand(c)
    PROVE  ChanInv' /\ RowStep
  <1>1. UNCHANGED <<execVars, creator, hub, netVars>> /\ Create(c)
        /\ thread' = [thread EXCEPT ![Request(c)] = Dispatching]
    BY DEF CreateCommand
  <1>2. row \in [Commands -> Rows]
    BY DEF ChanInv, PanelInv
  <1>3. \A d \in Commands : row'[d] = IF d = c THEN [state |-> "queued", res |-> NoRecord] ELSE row[d]
    BY <1>1, <1>2 DEF Create
  <1>4. row' \in [Commands -> Rows]
    BY <1>1, <1>2 DEF Create, Rows, RowStates
  <1>5. IssuedCommands \subseteq IssuedCommands'
    BY <1>3 DEF IssuedCommands
  <1>6. \A d \in Commands : row'[d].state = "succeeded" => d \in won
    BY <1>3 DEF ChanInv, PanelInv
  <1>7. Request(c) \in Threads
    BY DEF Threads, Requests
  <1>8. GoodThread(Dispatching)
    BY DispatchingThread DEF ChanInv, AgentInv, SettledInv, ExecTypeOK
  <1>9. RowStep
    BY <1>1 DEF RowStep
  <1> QED BY <1>1, <1>4, <1>5, <1>6, <1>7, <1>8, <1>9, ThreadStep
          DEF ChanInv, PanelInv, NetInv, netVars

\* Each step of DispatchAgent: expiring, listing, refusing, sending, marking.
LEMMA DispatchPreserves ==
    ASSUME ChanInv, NEW t \in Threads, DispatchStep(t)
    PROVE  ChanInv' /\ RowStep
  <1> DEFINE k == thread[t]
  <1>0. GoodThread(k) /\ k.todo \subseteq Commands
    BY GoodThreads DEF ChanInv, GoodThread, IssuedCommands
  <1>1. CASE ExpireOne(t)
    <2>1. PICK c \in First(t) :
            \/ /\ Transition(c, "expired", NoRecord)
               /\ thread' = [thread EXCEPT ![t].todo = @ \ {c}]
            \/ /\ thread' = [thread EXCEPT ![t].todo = {}]
               /\ UNCHANGED row
      BY <1>1 DEF ExpireOne
    <2>2. c \in Commands /\ c \in k.todo
      BY <1>0, <2>1 DEF First
    <2>3. /\ UNCHANGED <<execVars, hub, creator, netVars>>
          /\ hub' \in Sessions \cup {0}
          /\ outbound' \in [Sessions -> Seq(IssuedCommands)]
          /\ upstream' \in [Sessions -> Seq(HonestMessages)]
      BY <1>1 DEF ExpireOne, ChanInv, PanelInv, NetInv, netVars
    <2>4. /\ row' \in [Commands -> Rows] /\ IssuedCommands' = IssuedCommands /\ RowStep
          /\ \A d \in Commands : row'[d].state = "succeeded" => d \in won
      BY <2>1, <2>2, TransitionFacts, RowFrame DEF ChanInv, RowStates, RowResults
    <2>5. \E left \in SUBSET k.todo : thread' = [thread EXCEPT ![t] = [k EXCEPT !.todo = left]]
      BY <2>1, <2>2
    <2>6. PICK left \in SUBSET k.todo : thread' = [thread EXCEPT ![t] = [k EXCEPT !.todo = left]]
      BY <2>5
    <2>7. k.pc = "expire" /\ k \in ThreadStates
      BY <1>0, <1>1 DEF ExpireOne, GoodThread
    <2>8. GoodThread([k EXCEPT !.todo = left])
      BY <1>0, <2>7 DEF GoodThread, ThreadStates
    <2> QED BY <2>3, <2>4, <2>6, <2>8, ThreadStep DEF netVars
  <1>2. CASE ListQueued(t)
    <2>1. thread' = [thread EXCEPT ![t] = Loop(t, QueuedFor(late))]
          /\ UNCHANGED <<execVars, row, hub, creator, netVars>>
      BY <1>2 DEF ListQueued
    <2>2. QueuedFor(late) \in SUBSET IssuedCommands
      BY DEF QueuedFor, IssuedCommands
    <2>3. GoodThread(Loop(t, QueuedFor(late)))
      BY <2>2, LoopThread
    <2> QED BY <2>1, <2>3, RowFrame, ThreadStep DEF ChanInv, PanelInv, NetInv, netVars
  <1>3. CASE RefuseDispatch(t)
    <2>1. PICK c \in First(t) :
            \/ /\ Transition(c, "failed", AuthorizationRevoked)
               /\ thread' = [thread EXCEPT ![t] = Loop(t, @.todo \ {c})]
               /\ UNCHANGED <<hub, outbound, upstream>>
            \/ /\ Ends(t)
               /\ UNCHANGED row
      BY <1>3 DEF RefuseDispatch
    <2>2. c \in Commands /\ UNCHANGED <<execVars, creator, link, queue>>
      BY <1>0, <1>3, <2>1 DEF First, RefuseDispatch
    <2>3. CASE Transition(c, "failed", AuthorizationRevoked)
               /\ thread' = [thread EXCEPT ![t] = Loop(t, @.todo \ {c})]
               /\ UNCHANGED <<hub, outbound, upstream>>
      <3>1. /\ row' \in [Commands -> Rows] /\ IssuedCommands' = IssuedCommands /\ RowStep
            /\ \A d \in Commands : row'[d].state = "succeeded" => d \in won
        BY <2>2, <2>3, TransitionFacts DEF ChanInv, RowStates, RowResults
      <3>2. GoodThread(Loop(t, k.todo \ {c}))
        BY <1>0, LoopThread DEF GoodThread
      <3> QED BY <2>2, <2>3, <3>1, <3>2, ThreadStep DEF ChanInv, PanelInv, NetInv
    <2>4. CASE Ends(t) /\ UNCHANGED row
      BY <2>2, <2>4, EndsStep
    <2> QED BY <2>1, <2>3, <2>4
  <1>4. CASE SendCommand(t)
    <2> DEFINE sent == hub # 0 /\ Len(outbound[hub]) < OutboundSize
    <2>1. PICK c \in First(t) :
            /\ outbound' = IF sent THEN [outbound EXCEPT ![hub] = Append(@, c)] ELSE outbound
            /\ thread' = [thread EXCEPT ![t] =
                             IF sent /\ row[c].state = "queued"
                             THEN [pc |-> "mark", todo |-> @.todo \ {c}, cmd |-> c,
                                   st |-> "none", res |-> NoRecord]
                             ELSE Loop(t, @.todo \ {c})]
      BY <1>4 DEF SendCommand
    <2>2. c \in IssuedCommands /\ c \in Commands
      BY <1>0, <2>1 DEF First, GoodThread
    <2>3. UNCHANGED <<execVars, row, hub, creator, link, queue, upstream>>
      BY <1>4 DEF SendCommand
    <2>4. outbound' \in [Sessions -> Seq(IssuedCommands)]
      <3>1. CASE sent
        <4>1. outbound[hub] \in Seq(IssuedCommands)
          BY <3>1 DEF ChanInv, PanelInv, NetInv
        <4>2. Append(outbound[hub], c) \in Seq(IssuedCommands)
          BY <2>2, <4>1
        <4> QED BY <2>1, <3>1, <4>2 DEF ChanInv, NetInv
      <3>2. CASE ~sent
        BY <2>1, <3>2 DEF ChanInv, NetInv
      <3> QED BY <3>1, <3>2
    <2> DEFINE marked == [pc |-> "mark", todo |-> k.todo \ {c}, cmd |-> c,
                         st |-> "none", res |-> NoRecord]
    <2>5. GoodThread(marked)
      <3>1. k.todo \in SUBSET Commands /\ c \in 0..MaxCommand
        BY <1>0, <2>2, MaxCommandAssumption DEF GoodThread, Commands
      <3>2. marked \in ThreadStates
        BY <3>1 DEF ThreadStates
      <3> QED BY <1>0, <2>2, <3>2 DEF GoodThread
    <2>6. GoodThread(Loop(t, k.todo \ {c}))
      BY <1>0, LoopThread DEF GoodThread
    <2>7. \/ thread' = [thread EXCEPT ![t] = marked]
          \/ thread' = [thread EXCEPT ![t] = Loop(t, k.todo \ {c})]
      <3>1. CASE sent /\ row[c].state = "queued"
        BY <2>1, <3>1
      <3>2. CASE ~(sent /\ row[c].state = "queued")
        BY <2>1, <3>2
      <3> QED BY <3>1, <3>2
    <2> HIDE DEF marked
    <2> QED BY <2>3, <2>4, <2>5, <2>6, <2>7, RowFrame, ThreadStep DEF ChanInv, PanelInv, NetInv
  <1>5. CASE MarkDispatched(t)
    <2> DEFINE c == k.cmd
    <2>1. \/ /\ Transition(c, "dispatched", NoRecord)
             /\ thread' = [thread EXCEPT ![t] = Loop(t, @.todo)]
             /\ UNCHANGED <<hub, outbound, upstream>>
          \/ /\ Ends(t)
             /\ UNCHANGED row
      BY <1>5 DEF MarkDispatched
    <2>2. c \in Commands /\ UNCHANGED <<execVars, creator, link, queue>>
      BY <1>0, <1>5 DEF MarkDispatched, GoodThread, IssuedCommands
    <2>3. CASE Transition(c, "dispatched", NoRecord)
               /\ thread' = [thread EXCEPT ![t] = Loop(t, @.todo)]
               /\ UNCHANGED <<hub, outbound, upstream>>
      <3>1. /\ row' \in [Commands -> Rows] /\ IssuedCommands' = IssuedCommands /\ RowStep
            /\ \A d \in Commands : row'[d].state = "succeeded" => d \in won
        BY <2>2, <2>3, TransitionFacts DEF ChanInv, RowStates, RowResults
      <3>2. GoodThread(Loop(t, k.todo))
        BY <1>0, LoopThread DEF GoodThread
      <3> QED BY <2>2, <2>3, <3>1, <3>2, ThreadStep DEF ChanInv, PanelInv, NetInv
    <2>4. CASE Ends(t) /\ UNCHANGED row
      BY <2>2, <2>4, EndsStep
    <2> QED BY <2>1, <2>3, <2>4
  <1> QED BY <1>1, <1>2, <1>3, <1>4, <1>5 DEF DispatchStep

\* Reading and applying a result: success is recorded only of an honest one.
LEMMA ResultPreserves ==
    ASSUME ChanInv, NEW s \in Sessions, ResultStep(s)
    PROVE  ChanInv' /\ RowStep
  <1> DEFINE k == thread[s]
  <1>0. s \in Threads /\ GoodThread(k)
    BY GoodThreads DEF ChanInv, Threads
  <1>1. CASE ReadResult(s)
    <2> DEFINE m == Head(upstream[s])
               applying == [pc |-> "apply", todo |-> {}, cmd |-> m.cmd,
                            st |-> row[m.cmd].state, res |-> m.res]
    <2>1. upstream[s] \in Seq(HonestMessages) /\ upstream[s] # <<>>
      BY <1>1 DEF ReadResult, ChanInv, NetInv
    <2>2. m \in HonestMessages /\ Tail(upstream[s]) \in Seq(HonestMessages)
      BY <2>1
    <2>3. UNCHANGED <<execVars, row, creator, link, queue>>
      BY <1>1 DEF ReadResult
    <2>4. \/ /\ upstream' = [upstream EXCEPT ![s] = Tail(@)]
             /\ UNCHANGED <<thread, hub, outbound>>
          \/ Ends(s)
          \/ /\ row[m.cmd].state \in {"dispatched", "accepted", "running"}
             /\ thread' = [thread EXCEPT ![s] = applying]
             /\ upstream' = [upstream EXCEPT ![s] = Tail(@)]
             /\ UNCHANGED <<hub, outbound>>
      BY <1>1 DEF ReadResult
    <2>5. [upstream EXCEPT ![s] = Tail(@)] \in [Sessions -> Seq(HonestMessages)]
      BY <2>2 DEF ChanInv, NetInv
    <2>6. CASE upstream' = [upstream EXCEPT ![s] = Tail(@)] /\ UNCHANGED <<thread, hub, outbound>>
      BY <2>3, <2>5, <2>6, RowFrame, PanelStep DEF ChanInv, PanelInv, NetInv
    <2>7. CASE Ends(s)
      BY <1>0, <2>3, <2>7, EndsStep
    <2>8. CASE /\ row[m.cmd].state \in {"dispatched", "accepted", "running"}
               /\ thread' = [thread EXCEPT ![s] = applying]
               /\ upstream' = [upstream EXCEPT ![s] = Tail(@)]
               /\ UNCHANGED <<hub, outbound>>
      <3>1. /\ m.cmd \in Commands /\ m.res \in Results /\ Honest(m.cmd, m.res, won)
            /\ m.cmd \in 0..MaxCommand /\ m.cmd \in IssuedCommands
        BY <2>2, <2>8, MaxCommandAssumption DEF HonestMessages, Messages, Commands, IssuedCommands
      <3>2. applying \in ThreadStates
        BY <2>8, <3>1 DEF ThreadStates, RowStates
      <3>3. GoodThread(applying)
        BY <3>1, <3>2 DEF GoodThread
      <3> HIDE DEF applying
      <3> QED BY <1>0, <2>3, <2>5, <2>8, <3>3, RowFrame, ThreadStep DEF ChanInv, PanelInv, NetInv
    <2> QED BY <2>4, <2>6, <2>7, <2>8
  <1>2. CASE ApplyStep(s)
    <2> DEFINE c == k.cmd
               to == NextState(k.st, k.res)
               next == IF Terminal(k.res) /\ to = k.res.state
                       THEN Thread("read")
                       ELSE [k EXCEPT !.st = to]
    <2>1. \/ /\ Transition(c, to, k.res)
             /\ thread' = [thread EXCEPT ![s] = next]
             /\ UNCHANGED <<hub, outbound, upstream>>
          \/ /\ Ends(s)
             /\ UNCHANGED row
      BY <1>2 DEF ApplyStep
    <2>2. /\ c \in Commands /\ k.res \in Results /\ Honest(c, k.res, won) /\ k.pc = "apply"
          /\ UNCHANGED <<execVars, creator, link, queue>>
      BY <1>0, <1>2 DEF ApplyStep, GoodThread, IssuedCommands
    <2>3. to \in RowStates /\ (to = "succeeded" => c \in won)
      BY <2>2, StateFacts DEF NextState, RowStates, Honest
    <2>4. GoodThread(next)
      <3>1. GoodThread(Thread("read"))
        BY FreshThread
      <3>2. GoodThread([k EXCEPT !.st = to])
        BY <1>0, <2>3 DEF GoodThread, ThreadStates
      <3> QED BY <3>1, <3>2
    <2> HIDE DEF next, to
    <2>5. CASE Transition(c, to, k.res) /\ thread' = [thread EXCEPT ![s] = next]
               /\ UNCHANGED <<hub, outbound, upstream>>
      <3>1. /\ row' \in [Commands -> Rows] /\ IssuedCommands' = IssuedCommands /\ RowStep
            /\ \A d \in Commands : row'[d].state = "succeeded" => d \in won
        BY <2>2, <2>3, <2>5, TransitionFacts DEF ChanInv, RowResults
      <3> QED BY <1>0, <2>2, <2>4, <2>5, <3>1, ThreadStep DEF ChanInv, PanelInv, NetInv
    <2>6. CASE Ends(s) /\ UNCHANGED row
      BY <1>0, <2>2, <2>6, EndsStep
    <2> QED BY <2>1, <2>5, <2>6
  <1>3. CASE ApplyDone(s)
    <2>1. thread' = [thread EXCEPT ![s] = Thread("read")]
          /\ UNCHANGED <<execVars, row, hub, creator, netVars>>
      BY <1>3 DEF ApplyDone
    <2>2. GoodThread(Thread("read"))
      BY FreshThread
    <2> QED BY <1>0, <2>1, <2>2, RowFrame, ThreadStep DEF ChanInv, PanelInv, NetInv, netVars
  <1> QED BY <1>1, <1>2, <1>3 DEF ResultStep

\* A new session replaces the old one.
LEMMA ConnectPreserves ==
    ASSUME ChanInv, NEW s \in Sessions, Connect(s)
    PROVE  ChanInv' /\ RowStep
  <1>1. UNCHANGED <<execVars, row, creator, queue>>
        /\ hub' = s /\ link' = [link EXCEPT ![s] = "open"]
        /\ outbound' = Dropped(outbound, {hub}) /\ upstream' = Dropped(upstream, {hub})
    BY DEF Connect
  <1>2. GoodThread(Dispatching) /\ GoodThread(Thread("end"))
    BY FreshThread, DispatchingThread DEF ChanInv, AgentInv, SettledInv, ExecTypeOK
  <1>3. \A t \in Threads :
          thread'[t] \in {Dispatching, Thread("end"), thread[t]}
    BY DEF Connect
  <1>4. \A t \in Threads : thread'[t] = thread[t] \/ GoodThread(thread'[t])
    BY <1>2, <1>3
  <1>5. thread' \in [Threads -> ThreadStates]
    <2>1. \A t \in Threads : thread'[t] \in ThreadStates
      BY <1>4, GoodThreads DEF ChanInv, GoodThread
    <2>2. thread' = [t \in Threads |-> thread'[t]]
      BY DEF Connect
    <2> QED BY <2>1, <2>2
  <1>6. outbound' \in [Sessions -> Seq(IssuedCommands)] /\ upstream' \in [Sessions -> Seq(HonestMessages)]
    BY <1>1, DroppedNet DEF ChanInv, NetInv
  <1>7. hub' \in Sessions \cup {0} /\ link' \in [Sessions -> {"new", "open", "closed"}]
    BY <1>1 DEF ChanInv, NetInv
  <1> QED BY <1>1, <1>4, <1>5, <1>6, <1>7, RowFrame, PanelStep DEF ChanInv, PanelInv, NetInv

\* A command reaches the queue of the worker.
LEMMA DeliverPreserves ==
    ASSUME ChanInv, NEW s \in Sessions, DeliverCommand(s)
    PROVE  ChanInv' /\ RowStep
  <1> DEFINE c == Head(outbound[s])
             refused == [cmd |-> c, res |-> FailedResult("command_backpressure")]
  <1>1. /\ UNCHANGED <<execVars, row, thread, hub, creator, link>>
        /\ outbound' = [outbound EXCEPT ![s] = Tail(@)]
        /\ \/ queue' = [queue EXCEPT ![s] = Append(@, c)] /\ UNCHANGED upstream
           \/ upstream' = [upstream EXCEPT ![s] = Append(@, refused)] /\ UNCHANGED queue
    BY DEF DeliverCommand, panelVars
  <1>2. outbound[s] \in Seq(IssuedCommands) /\ outbound[s] # <<>>
        /\ queue[s] \in Seq(IssuedCommands) /\ upstream[s] \in Seq(HonestMessages)
    BY DEF DeliverCommand, ChanInv, NetInv
  <1>3. c \in IssuedCommands /\ Tail(outbound[s]) \in Seq(IssuedCommands)
    BY <1>2
  <1>4. refused \in HonestMessages
    BY <1>3, FailedResults, StateFacts DEF HonestMessages, Messages, Honest, RefusalCodes, IssuedCommands
  <1> HIDE DEF c, refused
  <1>5. Append(queue[s], c) \in Seq(IssuedCommands) /\ Append(upstream[s], refused) \in Seq(HonestMessages)
    BY <1>2, <1>3, <1>4
  <1>6. /\ outbound' \in [Sessions -> Seq(IssuedCommands)]
        /\ queue' \in [Sessions -> Seq(IssuedCommands)]
        /\ upstream' \in [Sessions -> Seq(HonestMessages)]
    BY <1>1, <1>3, <1>5 DEF ChanInv, NetInv
  <1> QED BY <1>1, <1>6, RowFrame, PanelStep DEF ChanInv, PanelInv, NetInv

\* Connections lost, requests aborted, clocks, roles, and a Panel restart.
LEMMA DisturbancePreserves ==
    ASSUME ChanInv, Disturbance \/ \E s \in Sessions : WorkerExit(s)
    PROVE  ChanInv' /\ RowStep
  <1>1. ASSUME NEW s \in Sessions, PanelClose(s) PROVE ChanInv' /\ RowStep
    BY <1>1, EndsStep DEF PanelClose, Threads
  <1>2. ASSUME NEW s \in Sessions, AgentClose(s) PROVE ChanInv' /\ RowStep
    <2>1. UNCHANGED <<execVars, row, thread, hub, creator, outbound, queue, upstream>>
          /\ link' \in [Sessions -> {"new", "open", "closed"}]
      BY <1>2 DEF AgentClose, panelVars, ChanInv, NetInv
    <2> QED BY <2>1, RowFrame, PanelStep DEF ChanInv, PanelInv, NetInv
  <1>3. ASSUME NEW c \in Commands, AbortRequest(c) PROVE ChanInv' /\ RowStep
    BY <1>3, EndsStep DEF AbortRequest, Threads, Requests
  <1>4. ASSUME NEW c \in Commands, TimePasses(c) PROVE ChanInv' /\ RowStep
    <2>1. UNCHANGED <<panelVars, netVars, mem, disk, work, won>> /\ Elapse(c)
      BY <1>4 DEF TimePasses, Elapse
    <2>2. SettledInv'
      BY <2>1, SettledNext DEF ChanInv, AgentInv, ExecNext
    <2>3. IssuedCommands' = IssuedCommands /\ row' = row
      BY <2>1, IssuedFrame DEF panelVars
    <2>4. AgentInv'
      BY <2>1, <2>2, <2>3 DEF ChanInv, AgentInv
    <2> QED BY <2>1, <2>3, <2>4, PanelFrame, NetFrame DEF ChanInv, RowStep
  <1>5. CASE AgentRestart
    <2>1. UNCHANGED <<panelVars, outbound, upstream, won>> /\ AgentCrash
      BY <1>5 DEF AgentRestart, AgentCrash
    <2>2. SettledInv'
      BY <2>1, SettledNext DEF ChanInv, AgentInv, ExecNext
    <2>3. IssuedCommands' = IssuedCommands /\ row' = row /\ HonestMessages' = HonestMessages
      BY <2>1, IssuedFrame DEF panelVars, HonestMessages
    <2>4. AgentInv'
      <3>1. \A w \in Workers : work'[w].pc = "idle"
        BY <2>1 DEF AgentCrash, Idle
      <3>2. \A d \in Commands : Honest(d, mem'.rec[d], won') /\ Honest(d, disk'.rec[d], won')
        BY <2>1 DEF AgentCrash, ChanInv, AgentInv
      <3> QED BY <2>1, <2>2, <2>3, <3>1, <3>2 DEF ChanInv, AgentInv
    <2>5. NetInv'
      BY <1>5, <2>1, <2>3 DEF AgentRestart, ChanInv, NetInv
    <2> QED BY <2>1, <2>3, <2>4, <2>5, PanelFrame DEF ChanInv, RowStep
  <1>6. CASE PanelRestart
    <2>1. UNCHANGED <<execVars, row, creator, link, queue>> /\ hub' = 0
      BY <1>6 DEF PanelRestart
    <2>2. \A t \in Threads : thread'[t] \in {thread[t], Thread("end")}
      BY <1>6 DEF PanelRestart
    <2>3. \A t \in Threads : thread'[t] = thread[t] \/ GoodThread(thread'[t])
      BY <2>2, FreshThread
    <2>4. thread' \in [Threads -> ThreadStates]
      <3>1. \A t \in Threads : thread'[t] \in ThreadStates
        BY <2>3, GoodThreads DEF ChanInv, GoodThread
      <3>2. thread' = [t \in Threads |-> thread'[t]]
        BY <1>6 DEF PanelRestart
      <3> QED BY <3>1, <3>2
    <2>5. outbound' \in [Sessions -> Seq(IssuedCommands)] /\ upstream' \in [Sessions -> Seq(HonestMessages)]
      BY <1>6, DroppedNet DEF PanelRestart, ChanInv, NetInv
    <2> QED BY <2>1, <2>3, <2>4, <2>5, RowFrame, PanelStep DEF ChanInv, PanelInv, NetInv
  <1>7. CASE Demote
    <2>1. UNCHANGED <<execVars, row, thread, hub, netVars>> /\ creator' \in Creators
      BY <1>7 DEF Demote, ChanInv, PanelInv, Creators
    <2> QED BY <2>1, RowFrame, PanelStep DEF ChanInv, PanelInv, NetInv, netVars
  <1>8. ASSUME NEW s \in Sessions, WorkerExit(s) PROVE ChanInv' /\ RowStep
    <2>1. UNCHANGED <<execVars, row, thread, hub, creator, outbound, link, upstream>>
          /\ queue' \in [Sessions -> Seq(IssuedCommands)]
      BY <1>8 DEF WorkerExit, panelVars, ChanInv, NetInv
    <2> QED BY <2>1, RowFrame, PanelStep DEF ChanInv, PanelInv, NetInv
  <1>9. CASE Logout
    <2>1. UNCHANGED <<execVars, row, thread, hub, netVars>> /\ creator' \in Creators
      BY <1>9 DEF Logout, ChanInv, PanelInv, Creators
    <2> QED BY <2>1, RowFrame, PanelStep DEF ChanInv, PanelInv, NetInv, netVars
  <1> QED BY <1>1, <1>2, <1>3, <1>4, <1>5, <1>6, <1>7, <1>8, <1>9 DEF Disturbance

-----------------------------------------------------------------------------
(* The theorems *)

\* Every step of the channel keeps the inductive invariant.
LEMMA ChanNextInv == ChanInv /\ [ChanNext]_chanVars => ChanInv'
  <1> SUFFICES ASSUME ChanInv, [ChanNext]_chanVars PROVE ChanInv'
    OBVIOUS
  <1>1. ASSUME NEW c \in Commands, CreateCommand(c) PROVE ChanInv'
    BY <1>1, CreatePreserves
  <1>2. ASSUME NEW t \in Threads, DispatchStep(t) PROVE ChanInv'
    BY <1>2, DispatchPreserves
  <1>3. ASSUME NEW s \in Sessions,
               Connect(s) \/ ResultStep(s) \/ DeliverCommand(s) \/ WorkerStep(s) \/ WorkerExit(s)
        PROVE  ChanInv'
    BY <1>3, ConnectPreserves, ResultPreserves, DeliverPreserves, WorkerPreserves,
       DisturbancePreserves
  <1>4. CASE Disturbance
    BY <1>4, DisturbancePreserves
  <1>5. CASE UNCHANGED chanVars
    <2>1. UNCHANGED panelVars /\ UNCHANGED netVars /\ UNCHANGED execVars
      BY <1>5 DEF chanVars
    <2>2. IssuedCommands' = IssuedCommands
      BY <2>1, IssuedFrame
    <2>3. AgentInv' /\ won' = won
      BY <2>1, <2>2, AgentFrame DEF ChanInv
    <2> QED BY <2>1, <2>2, <2>3, PanelFrame, NetFrame DEF ChanInv
  <1> QED BY <1>1, <1>2, <1>3, <1>4, <1>5 DEF ChanNext

\* The inductive invariant holds throughout.
LEMMA ChanInvariance == ChanSpec => []ChanInv
  BY ChanInitInv, ChanNextInv, PTL DEF ChanSpec

\* Type correctness of the channel, for every instance.
THEOREM ChanTypeCorrect == ChanSpec => []ChanTypeOK
  <1>1. ChanInv => ChanTypeOK
    <2> SUFFICES ASSUME ChanInv PROVE ChanTypeOK
      OBVIOUS
    <2>1. IssuedCommands \subseteq Commands /\ HonestMessages \subseteq Messages
      BY DEF IssuedCommands, HonestMessages
    <2>2. Seq(IssuedCommands) \subseteq Seq(Commands) /\ Seq(HonestMessages) \subseteq Seq(Messages)
      BY <2>1, SeqMonotone
    <2> QED BY <2>2 DEF ChanInv, PanelInv, NetInv, AgentInv, SettledInv, ChanTypeOK
  <1> QED BY <1>1, ChanInvariance, PTL

\* A command the Panel shows as succeeded did succeed on the Agent, through
\* lost sessions, restarts of either side, expiry and concurrent dispatches.
THEOREM SucceededWasDone == ChanSpec => []SucceededMeansDone
  <1>1. ChanInv => SucceededMeansDone
    BY DEF ChanInv, PanelInv, SucceededMeansDone
  <1> QED BY <1>1, ChanInvariance, PTL

\* A call of Execute can only add its own command to the successes.
LEMMA WonStep ==
    ASSUME NEW w \in Workers, ExecuteStep(w)
    PROVE  won' = won \/ (work[w].pc = "running" /\ won' = won \cup {work[w].cmd})
  BY DEF ExecuteStep, RejectEnvelope, ReturnPrior, Resume, Refuse, Accept, EnterHandler,
         LeaveHandler

\* Every step either moves the command table and leaves the successes alone, or
\* leaves the table and adds the success of a committed command.
LEMMA LifecycleStep ==
    ASSUME ChanInv, ChanNext
    PROVE  \/ RowStep /\ won' = won
           \/ row' = row /\ \E c \in IssuedCommands : won' = won \cup {c}
  <1>1. ASSUME NEW c \in Commands, CreateCommand(c) PROVE RowStep /\ won' = won
    BY <1>1, CreatePreserves DEF CreateCommand, execVars
  <1>2. ASSUME NEW t \in Threads, DispatchStep(t) PROVE RowStep /\ won' = won
    BY <1>2, DispatchPreserves DEF DispatchStep, ExpireOne, ListQueued, RefuseDispatch,
       SendCommand, MarkDispatched, execVars
  <1>3. ASSUME NEW s \in Sessions, Connect(s) \/ ResultStep(s) \/ DeliverCommand(s)
        PROVE  RowStep /\ won' = won
    BY <1>3, ConnectPreserves, ResultPreserves, DeliverPreserves
       DEF Connect, ResultStep, ReadResult, ApplyStep, ApplyDone, DeliverCommand, execVars
  <1>4. ASSUME NEW s \in Sessions, WorkerExit(s) PROVE RowStep /\ won' = won
    BY <1>4, DisturbancePreserves DEF WorkerExit, execVars
  <1>5. CASE Disturbance
    <2>1. won' = won
      BY <1>5 DEF Disturbance, PanelClose, AgentClose, AbortRequest, TimePasses, Elapse,
                  AgentRestart, AgentCrash, PanelRestart, Demote, Logout, execVars
    <2> QED BY <1>5, <2>1, DisturbancePreserves
  <1>6. ASSUME NEW s \in Sessions, WorkerStep(s)
        PROVE  \/ RowStep /\ won' = won
               \/ row' = row /\ \E c \in IssuedCommands : won' = won \cup {c}
    <2>1. CASE TakeCommand(s) \/ ReturnResult(s)
      BY <2>1 DEF TakeCommand, ReturnResult, Call, Return, panelVars, RowStep
    <2>2. CASE ExecuteCommand(s)
      <3>1. s \in Workers /\ ExecuteStep(s) /\ row' = row
        BY <2>2, WorkersAssumption DEF ExecuteCommand, panelVars
      <3>2. CASE won' = won
        BY <3>1, <3>2 DEF RowStep
      <3>3. CASE work[s].pc = "running" /\ won' = won \cup {work[s].cmd}
        <4>1. work[s].cmd \in IssuedCommands
          BY <3>1, <3>3 DEF ChanInv, AgentInv
        <4> QED BY <3>1, <3>3, <4>1
      <3> QED BY <3>1, <3>2, <3>3, WonStep
    <2> QED BY <1>6, <2>1, <2>2 DEF WorkerStep
  <1> QED BY <1>1, <1>2, <1>3, <1>4, <1>5, <1>6 DEF ChanNext

\* One transition of the table is one move of the lifecycle.
LEMMA RowStepMoves ==
    ASSUME ChanInv, RowStep, won' = won
    PROVE  [Lifecycle!Next]_(Lifecycle!lifecycleVars)
  <1> DEFINE status == [c \in Commands |-> row[c].state]
  <1>0. row \in [Commands -> Rows]
    BY DEF ChanInv, PanelInv
  <1>1. CASE row' = row
    BY <1>1 DEF Lifecycle!lifecycleVars
  <1>2. ASSUME NEW c \in Commands, Create(c) PROVE Lifecycle!Next
    <2>1. row[c].state = "none" /\ row' = [row EXCEPT ![c] = [state |-> "queued", res |-> NoRecord]]
      BY <1>2 DEF Create
    <2>2. status' = [status EXCEPT ![c] = "queued"]
      BY <1>0, <2>1
    <2>3. Lifecycle!Move(c, "queued")
      BY <2>1, <2>2 DEF Lifecycle!Move, Lifecycle!Moves
    <2> QED BY <2>3 DEF Lifecycle!Next
  <1>3. ASSUME NEW c \in Commands, NEW to \in RowStates, NEW res \in RowResults,
               Transition(c, to, res), to = "succeeded" => c \in won
        PROVE  Lifecycle!Next
    <2>1. /\ AllowedTransition(row[c].state, to)
          /\ row' = [row EXCEPT ![c].state = to,
                                ![c].res = IF to \in {"succeeded", "failed"} THEN res ELSE @]
      BY <1>3 DEF Transition
    <2>2. row[c] \in Rows /\ \A d \in Commands \ {c} : row'[d] = row[d]
      BY <1>0, <2>1
    <2>3. row'[c].state = to
      BY <1>0, <2>1, <2>2 DEF Rows
    <2>4. status' = [status EXCEPT ![c] = to]
      BY <2>2, <2>3
    <2>5. <<status[c], to>> \in Lifecycle!Moves
      BY <2>1 DEF AllowedTransition, Lifecycle!Moves
    <2>6. Lifecycle!Move(c, to)
      BY <1>3, <2>4, <2>5 DEF Lifecycle!Move
    <2> QED BY <2>6 DEF Lifecycle!Next, RowStates
  <1> QED BY <1>1, <1>2, <1>3 DEF RowStep

\* The channel implements CommandLifecycle.
THEOREM ChannelImplementsLifecycle == ChanSpec => ImplementsLifecycle
  <1>1. ChanInit => Lifecycle!Init
    <2> SUFFICES ASSUME ChanInit PROVE Lifecycle!Init
      OBVIOUS
    <2>1. \A c \in Commands : row[c].state = "none"
      BY DEF ChanInit, StoreInit, NoRow
    <2> QED BY <2>1 DEF ChanInit, ExecInit, Lifecycle!Init
  <1>2. ChanInv /\ [ChanNext]_chanVars => [Lifecycle!Next]_(Lifecycle!lifecycleVars)
    <2> SUFFICES ASSUME ChanInv, [ChanNext]_chanVars
                 PROVE  [Lifecycle!Next]_(Lifecycle!lifecycleVars)
      OBVIOUS
    <2>1. CASE UNCHANGED chanVars
      BY <2>1 DEF chanVars, panelVars, execVars, Lifecycle!lifecycleVars
    <2>2. CASE RowStep /\ won' = won
      BY <2>2, RowStepMoves
    <2>3. ASSUME row' = row, NEW c \in IssuedCommands, won' = won \cup {c}
          PROVE  Lifecycle!Next
      <3>1. c \in Commands /\ row[c].state # "none"
        BY DEF IssuedCommands
      <3>2. Lifecycle!Achieve(c)
        BY <2>3, <3>1 DEF Lifecycle!Achieve
      <3> QED BY <3>1, <3>2 DEF Lifecycle!Next
    <2> QED BY <2>1, <2>2, <2>3, LifecycleStep
  <1> QED BY <1>1, <1>2, ChanInvariance, PTL DEF ChanSpec, ImplementsLifecycle, Lifecycle!Spec
=============================================================================
