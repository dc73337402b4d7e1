------------------------ MODULE CommandExecutorProofs ------------------------
(***************************************************************************)
(* Proofs about CommandExecutor, for any number of commands and workers,   *)
(* any size of the record cache and any handler outcomes.                  *)
(***************************************************************************)
EXTENDS CommandExecutor, FiniteSetTheorems, TLAPS

\* A command the Agent will not run again, as far as the state m tells: its
\* terminal record, or after trimRecords only the sequence it has passed.
Closed(m, c) == \/ Terminal(m.rec[c])
                \/ m.rec[c] = NoRecord /\ c <= m.seen

\* Every record belongs to a sequence that has been seen.
RecordsSeen(m) == \A c \in Commands : m.rec[c] # NoRecord => c <= m.seen

\* A call of Execute has a command, and one that holds executeMu an open record.
CallsInv ==
    \A w \in Workers :
        /\ work[w].pc # "idle" => work[w].cmd \in Commands
        /\ work[w].pc \in {"resume", "running"} =>
              /\ mem.rec[work[w].cmd] # NoRecord
              /\ ~Terminal(mem.rec[work[w].cmd])

\* The inductive invariant behind SettledNeverRuns.
SettledInv ==
    /\ ExecTypeOK
    /\ CallsInv
    /\ OneHandlerAtATime
    /\ RecordsSeen(mem)
    /\ RecordsSeen(disk)
    /\ \A c \in settled : Closed(mem, c) /\ Closed(disk, c)
    /\ \A c \in Commands : Terminal(disk.rec[c]) => c \in settled

-----------------------------------------------------------------------------
\* What a record may be, in terms of the two predicates the code tests.
LEMMA RecordFacts ==
    /\ ~Terminal(NoRecord) /\ ~Terminal(AcceptedRecord) /\ ~Terminal(RunningRecord)
    /\ AcceptedRecord # NoRecord /\ RunningRecord # NoRecord
    /\ \A o \in Outcomes : o # NoRecord
    /\ \A r \in Records : Terminal(r) => r \in Results /\ r # NoRecord
  <1>1. /\ ~Terminal(NoRecord) /\ ~Terminal(AcceptedRecord) /\ ~Terminal(RunningRecord)
    BY DEF Terminal, NoRecord, AcceptedRecord, RunningRecord
  <1>2. AcceptedRecord.state # NoRecord.state /\ RunningRecord.state # NoRecord.state
    BY DEF NoRecord, AcceptedRecord, RunningRecord
  <1>3. \A o \in Outcomes : o.state # NoRecord.state
    BY DEF NoRecord, Outcomes, Succeeded, HandlerFailed, Staged
  <1>4. \A r \in Records : Terminal(r) => r \in Outcomes
    BY <1>1 DEF Records
  <1>5. Outcomes \subseteq Results
    BY DEF Results
  <1> QED BY <1>1, <1>2, <1>3, <1>4, <1>5

\* trimRecords only forgets records.
LEMMA TrimForgets ==
    ASSUME NEW rec \in [Commands -> Records]
    PROVE  /\ TrimRecords(rec) \in [Commands -> Records]
           /\ \A c \in Commands : TrimRecords(rec)[c] \in {rec[c], NoRecord}
  BY DEF TrimRecords, Records

\* trimRecords keeps the record with the highest sequence.
LEMMA TrimKeepsHighest ==
    ASSUME NEW rec \in [Commands -> Records], NEW c \in Commands,
           \A d \in Commands : rec[d] # NoRecord => d <= c
    PROVE  TrimRecords(rec)[c] = rec[c]
  <1>1. {d \in Commands : d > c /\ rec[d] # NoRecord} = {}
    BY DEF Commands
  <1>2. Cardinality({d \in Commands : d > c /\ rec[d] # NoRecord}) < MaxRecords
    BY <1>1, FS_EmptySet, MaxRecordsAssumption
  <1> QED BY <1>2 DEF TrimRecords

\* After persist the file holds the state written or what it held before, and
\* what is newly settled is terminal in it.
LEMMA PersistFacts ==
    ASSUME NEW st, NEW p \in PersistOutcomes, Persist(st, p)
    PROVE  /\ disk' \in {st, disk}
           /\ p.ok => disk' = st
           /\ settled' = settled \cup {c \in Commands : Terminal(disk'.rec[c])}
  BY DEF PersistOutcomes, Persist

-----------------------------------------------------------------------------
\* With an empty state file nothing is settled and no call is under way.
LEMMA SettledInit == ExecInit => SettledInv
  <1> SUFFICES ASSUME ExecInit PROVE SettledInv
    OBVIOUS
  <1>1. ExecTypeOK
    <2>1. mem \in States /\ disk \in States
      BY MaxCommandAssumption DEF ExecInit, States, Records
    <2>2. work \in [Workers -> Works]
      BY MaxCommandAssumption DEF ExecInit, Works, Idle
    <2> QED BY <2>1, <2>2 DEF ExecInit, ExecTypeOK
  <1>2. CallsInv /\ OneHandlerAtATime
    BY DEF ExecInit, CallsInv, OneHandlerAtATime, Idle
  <1>3. RecordsSeen(mem) /\ RecordsSeen(disk)
    BY DEF ExecInit, RecordsSeen
  <1> QED BY <1>1, <1>2, <1>3, RecordFacts DEF ExecInit, SettledInv

\* A step that changes only where the calls are.
LEMMA WorkStep ==
    ASSUME SettledInv, UNCHANGED <<mem, disk, settled, entered, won>>,
           late' \subseteq Commands,
           NEW w \in Workers, NEW k \in Works,
           work' = [work EXCEPT ![w] = k],
           k.pc # "idle" => k.cmd \in Commands,
           k.pc \in {"resume", "running"} =>
               /\ \A v \in Workers \ {w} : work[v].pc \notin {"resume", "running"}
               /\ mem.rec[k.cmd] # NoRecord
               /\ ~Terminal(mem.rec[k.cmd])
    PROVE  SettledInv'
  <1> USE DEF SettledInv
  <1>1. ExecTypeOK'
    BY DEF ExecTypeOK
  <1>2. \A v \in Workers : work'[v] = IF v = w THEN k ELSE work[v]
    BY DEF ExecTypeOK
  <1>3. CallsInv'
    BY <1>2 DEF CallsInv
  <1>4. OneHandlerAtATime'
    BY <1>2 DEF OneHandlerAtATime
  <1>5. RecordsSeen(mem)' /\ RecordsSeen(disk)'
    BY DEF RecordsSeen
  <1>6. \A c \in settled' : Closed(mem, c)' /\ Closed(disk, c)'
    BY DEF Closed
  <1>7. \A c \in Commands : Terminal(disk.rec[c])' => c \in settled'
    BY DEF Terminal
  <1> QED BY <1>1, <1>3, <1>4, <1>5, <1>6, <1>7

\* A call of Execute returns an answer and changes nothing else.
LEMMA AnswerStep ==
    ASSUME SettledInv, UNCHANGED <<mem, disk, late, settled, entered, won>>,
           NEW w \in Workers, work[w].pc # "idle",
           NEW r \in Results, Answer(w, r)
    PROVE  SettledInv'
  <1> DEFINE k == [work[w] EXCEPT !.pc = "answer", !.res = r]
  <1>1. work[w] \in Works
    BY DEF SettledInv, ExecTypeOK
  <1>2. k \in Works /\ k.pc = "answer" /\ k.cmd = work[w].cmd
    BY <1>1 DEF Works
  <1>3. work' = [work EXCEPT ![w] = k]
    BY DEF Answer
  <1>4. k.cmd \in Commands
    BY <1>2 DEF SettledInv, CallsInv
  <1>5. late' \subseteq Commands
    BY DEF SettledInv, ExecTypeOK
  <1> HIDE DEF k
  <1> QED BY <1>2, <1>3, <1>4, <1>5, WorkStep

\* Every refusal is a result the protocol knows.
LEMMA FailedResults == \A code \in RefusalCodes : FailedResult(code) \in Results
  BY DEF Results

\* The calls that touch no record.
LEMMA CallPreserves ==
    ASSUME SettledInv, NEW w \in Workers, NEW c \in Commands, Call(w, c)
    PROVE  SettledInv'
  <1> DEFINE k == [pc |-> "waiting", cmd |-> c, res |-> NoRecord]
  <1>1. k \in Works /\ k.pc = "waiting" /\ k.cmd = c
    BY MaxCommandAssumption DEF Works, Commands
  <1>2. work' = [work EXCEPT ![w] = k] /\ late' \subseteq Commands
    BY DEF Call, SettledInv, ExecTypeOK
  <1>3. UNCHANGED <<mem, disk, settled, entered, won>>
    BY DEF Call
  <1> HIDE DEF k
  <1> QED BY <1>1, <1>2, <1>3, WorkStep

\* A refusal before the lock touches no record.
LEMMA RejectEnvelopePreserves ==
    ASSUME SettledInv, NEW w \in Workers, RejectEnvelope(w)
    PROVE  SettledInv'
  <1>1. PICK code \in {"invalid_command", "invalid_signature", "wrong_agent"} :
            Answer(w, FailedResult(code))
    BY DEF RejectEnvelope
  <1>2. FailedResult(code) \in Results
    BY FailedResults DEF RefusalCodes
  <1> QED BY <1>1, <1>2, AnswerStep DEF RejectEnvelope

\* Answering from the record changes nothing but the call.
LEMMA ReturnPriorPreserves ==
    ASSUME SettledInv, NEW w \in Workers, ReturnPrior(w)
    PROVE  SettledInv'
  <1>1. work[w].pc = "waiting" /\ work[w].cmd \in Commands
    BY DEF ReturnPrior, Locks, SettledInv, CallsInv
  <1>2. mem.rec[work[w].cmd] \in Records
    BY <1>1 DEF SettledInv, ExecTypeOK, States
  <1>3. mem.rec[work[w].cmd] \in Results
    BY <1>2, RecordFacts DEF ReturnPrior
  <1> QED BY <1>1, <1>3, AnswerStep DEF ReturnPrior

\* Resuming an open record: it is not terminal, so nothing settled is run.
LEMMA ResumePreserves ==
    ASSUME SettledInv, NEW w \in Workers, Resume(w)
    PROVE  SettledInv'
  <1>1. work[w].pc = "waiting" /\ work[w].cmd \in Commands
    BY DEF Resume, Locks, SettledInv, CallsInv
  <1>2. CASE work[w].cmd \in Unsupported
    <2>1. Answer(w, FailedResult("unsupported_action"))
      BY <1>2 DEF Resume
    <2>2. FailedResult("unsupported_action") \in Results
      BY FailedResults DEF RefusalCodes
    <2> QED BY <1>1, <2>1, <2>2, AnswerStep DEF Resume
  <1>3. CASE work[w].cmd \notin Unsupported
    <2> DEFINE k == [work[w] EXCEPT !.pc = "resume"]
    <2>1. k \in Works /\ k.pc = "resume" /\ k.cmd = work[w].cmd
      BY DEF SettledInv, ExecTypeOK, Works
    <2>2. work' = [work EXCEPT ![w] = k] /\ late' \subseteq Commands
      BY <1>3 DEF Resume, SettledInv, ExecTypeOK
    <2>3. \A v \in Workers \ {w} : work[v].pc \notin {"resume", "running"}
      BY DEF Resume, Locks, ExecuteMuFree
    <2>4. mem.rec[k.cmd] # NoRecord /\ ~Terminal(mem.rec[k.cmd])
      BY <2>1 DEF Resume
    <2>5. UNCHANGED <<mem, disk, settled, entered, won>>
      BY DEF Resume
    <2> HIDE DEF k
    <2> QED BY <1>1, <2>1, <2>2, <2>3, <2>4, <2>5, WorkStep
  <1> QED BY <1>2, <1>3

\* A refusal under the lock touches no record.
LEMMA RefusePreserves ==
    ASSUME SettledInv, NEW w \in Workers, Refuse(w)
    PROVE  SettledInv'
  <1>1. PICK ahead \in Ahead(work[w].cmd) :
            /\ Refusal(work[w].cmd, ahead) # ""
            /\ Answer(w, FailedResult(Refusal(work[w].cmd, ahead)))
    BY DEF Refuse
  <1>2. Refusal(work[w].cmd, ahead) \in RefusalCodes
    BY <1>1 DEF Refusal, RefusalCodes
  <1>3. FailedResult(Refusal(work[w].cmd, ahead)) \in Results
    BY <1>2, FailedResults
  <1>4. work[w].pc # "idle"
    BY DEF Refuse, Locks
  <1> QED BY <1>1, <1>3, <1>4, AnswerStep DEF Refuse

\* The parts of the invariant that follow from the records, for a step of the
\* worker w that holds executeMu.
LEMMA RecordStep ==
    ASSUME SettledInv, NEW w \in Workers, NEW k \in Works,
           work' = [work EXCEPT ![w] = k], k.cmd \in Commands,
           \A v \in Workers \ {w} : work[v].pc \notin {"resume", "running"},
           mem' \in States, disk' \in States, late' \subseteq Commands,
           entered' \subseteq Commands, won' \subseteq Commands,
           settled' = settled \cup {c \in Commands : Terminal(disk'.rec[c])},
           RecordsSeen(mem'), RecordsSeen(disk'),
           \A c \in settled' : Closed(mem', c) /\ Closed(disk', c),
           k.pc \in {"resume", "running"} =>
               mem'.rec[k.cmd] # NoRecord /\ ~Terminal(mem'.rec[k.cmd])
    PROVE  SettledInv'
  <1>1. \A v \in Workers : work'[v] = IF v = w THEN k ELSE work[v]
    BY DEF SettledInv, ExecTypeOK
  <1>2. ExecTypeOK'
    BY DEF SettledInv, ExecTypeOK
  <1>3. CallsInv'
    BY <1>1 DEF SettledInv, CallsInv
  <1>4. OneHandlerAtATime'
    BY <1>1 DEF SettledInv, OneHandlerAtATime
  <1>5. RecordsSeen(mem)' /\ RecordsSeen(disk)'
    BY DEF RecordsSeen
  <1>6. \A c \in settled' : Closed(mem, c)' /\ Closed(disk, c)'
    BY DEF Closed
  <1>7. \A c \in Commands : Terminal(disk.rec[c])' => c \in settled'
    BY DEF Terminal
  <1> QED BY <1>2, <1>3, <1>4, <1>5, <1>6, <1>7 DEF SettledInv

\* Accepting writes a record above both watermarks, so of a command that is not
\* settled, and trimming drops only what the watermark covers.
LEMMA AcceptPreserves ==
    ASSUME SettledInv, NEW w \in Workers, Accept(w)
    PROVE  SettledInv'
  <1> DEFINE c == work[w].cmd
             rec == [mem.rec EXCEPT ![c] = AcceptedRecord]
             accepted == [rec |-> TrimRecords(rec), seen |-> c, done |-> mem.done]
  <1>1. PICK p \in PersistOutcomes :
            /\ Persist(accepted, p)
            /\ IF p.ok
               THEN work' = [work EXCEPT ![w].pc = "resume"]
               ELSE Answer(w, FailedResult("state_write_failed"))
    BY DEF Accept, AcceptedState
  <1>2. c \in Commands /\ mem.rec[c] = NoRecord /\ mem.seen < c
    <2>1. c \in Commands /\ mem.rec[c] = NoRecord
      BY DEF Accept, Locks, SettledInv, CallsInv
    <2>2. ~(c <= mem.seen)
      BY DEF Accept, AcceptedState, Refusal
    <2> QED BY <2>1, <2>2 DEF SettledInv, ExecTypeOK, States, Commands
  <1>3. rec \in [Commands -> Records] /\ rec[c] = AcceptedRecord
        /\ \A d \in Commands : d # c => rec[d] = mem.rec[d]
    BY <1>2 DEF SettledInv, ExecTypeOK, States, Records
  <1>4. \A d \in Commands : rec[d] # NoRecord => d <= c
    BY <1>2, <1>3 DEF SettledInv, RecordsSeen, ExecTypeOK, States, Commands
  <1>5. /\ TrimRecords(rec) \in [Commands -> Records]
        /\ \A d \in Commands : TrimRecords(rec)[d] \in {rec[d], NoRecord}
        /\ TrimRecords(rec)[c] = AcceptedRecord
    BY <1>2, <1>3, <1>4, TrimForgets, TrimKeepsHighest
  <1>6. accepted.rec = TrimRecords(rec) /\ accepted.seen = c /\ accepted \in States
    BY <1>2, <1>5 DEF SettledInv, ExecTypeOK, States, Commands
  <1>7. mem' = accepted /\ late' = late /\ entered' = entered /\ won' = won
    BY DEF Accept, AcceptedState
  <1> HIDE DEF rec, accepted
  <1>8. RecordsSeen(accepted)
    BY <1>4, <1>5, <1>6 DEF RecordsSeen
  <1>9. \A d \in settled : Closed(accepted, d)
    <2> SUFFICES ASSUME NEW d \in settled PROVE Closed(accepted, d)
      OBVIOUS
    <2>1. d \in Commands /\ Closed(mem, d)
      BY DEF SettledInv, ExecTypeOK
    <2>2. d # c /\ d < c
      BY <1>2, <2>1, RecordFacts DEF Closed, SettledInv, RecordsSeen, ExecTypeOK, States, Commands
    <2>3. accepted.rec[d] \in {mem.rec[d], NoRecord}
      BY <1>3, <1>5, <1>6, <2>1, <2>2
    <2> QED BY <1>2, <1>6, <2>1, <2>2, <2>3 DEF Closed, Commands
  <1>10. /\ disk' \in {accepted, disk}
         /\ settled' = settled \cup {d \in Commands : Terminal(disk'.rec[d])}
    BY <1>1, PersistFacts
  <1>11. disk' \in States /\ RecordsSeen(disk')
    BY <1>6, <1>8, <1>10 DEF SettledInv, ExecTypeOK
  <1>12. \A d \in settled' : Closed(mem', d) /\ Closed(disk', d)
    <2> SUFFICES ASSUME NEW d \in settled' PROVE Closed(mem', d) /\ Closed(disk', d)
      OBVIOUS
    <2>1. CASE d \in settled
      BY <2>1, <1>7, <1>9, <1>10 DEF SettledInv
    <2>2. CASE d \notin settled
      <3>1. d \in Commands /\ Terminal(disk'.rec[d])
        BY <2>2, <1>10
      <3>2. CASE disk' = accepted
        BY <3>1, <3>2, <1>7 DEF Closed
      <3>3. CASE disk' = disk
        BY <3>1, <3>3, <2>2 DEF SettledInv
      <3> QED BY <3>2, <3>3, <1>10
    <2> QED BY <2>1, <2>2
  <1>13. CASE p.ok
    <2> DEFINE k == [work[w] EXCEPT !.pc = "resume"]
    <2>1. k \in Works /\ k.pc = "resume" /\ k.cmd = c
      BY DEF SettledInv, ExecTypeOK, Works
    <2>2. work' = [work EXCEPT ![w] = k]
      BY <1>1, <1>13
    <2> HIDE DEF k
    <2> QED
      BY <1>2, <1>5, <1>6, <1>7, <1>8, <1>10, <1>11, <1>12, <2>1, <2>2, RecordFacts, RecordStep
         DEF Accept, Locks, ExecuteMuFree, SettledInv, ExecTypeOK
  <1>14. CASE ~p.ok
    <2> DEFINE r == FailedResult("state_write_failed")
               k == [work[w] EXCEPT !.pc = "answer", !.res = r]
    <2>1. r \in Results
      BY FailedResults DEF RefusalCodes
    <2>2. k \in Works /\ k.pc = "answer" /\ k.cmd = c
      BY <2>1 DEF SettledInv, ExecTypeOK, Works
    <2>3. work' = [work EXCEPT ![w] = k]
      BY <1>1, <1>14 DEF Answer
    <2> HIDE DEF k
    <2> QED
      BY <1>2, <1>6, <1>7, <1>8, <1>10, <1>11, <1>12, <2>2, <2>3, RecordStep
         DEF Accept, Locks, ExecuteMuFree, SettledInv, ExecTypeOK
  <1> QED BY <1>13, <1>14

\* What persist settles, when the state it writes agrees with memory on every
\* command that is closed.
LEMMA PersistSettles ==
    ASSUME SettledInv, NEW st \in States, NEW p \in PersistOutcomes, Persist(st, p),
           RecordsSeen(st), mem' \in States,
           \A d \in settled : Closed(st, d) /\ Closed(mem', d),
           \A d \in Commands : p.written /\ Terminal(st.rec[d]) => Closed(mem', d)
    PROVE  /\ disk' \in States /\ RecordsSeen(disk')
           /\ settled' = settled \cup {d \in Commands : Terminal(disk'.rec[d])}
           /\ \A d \in settled' : Closed(mem', d) /\ Closed(disk', d)
  <1>1. /\ disk' = IF p.written THEN st ELSE disk
        /\ settled' = settled \cup {d \in Commands : Terminal(disk'.rec[d])}
    BY DEF Persist
  <1>2. CASE p.written
    <2>1. disk' = st
      BY <1>1, <1>2
    <2>2. \A d \in Commands : Terminal(st.rec[d]) => Closed(st, d)
      BY DEF Closed
    <2> QED BY <1>1, <1>2, <2>1, <2>2
  <1>3. CASE ~p.written
    <2>1. disk' = disk
      BY <1>1, <1>3
    <2>2. settled' = settled
      BY <1>1, <2>1 DEF SettledInv
    <2> QED BY <1>1, <2>1, <2>2 DEF SettledInv, ExecTypeOK
  <1> QED BY <1>2, <1>3

\* Entering the handler: the record becomes running, on disk first.
LEMMA EnterHandlerPreserves ==
    ASSUME SettledInv, NEW w \in Workers, EnterHandler(w)
    PROVE  SettledInv'
  <1> DEFINE c == work[w].cmd
             running == [mem EXCEPT !.rec = [@ EXCEPT ![c] = RunningRecord]]
  <1>1. PICK p \in PersistOutcomes :
            /\ Persist(running, p)
            /\ IF p.ok
               THEN /\ mem' = running
                    /\ work' = [work EXCEPT ![w].pc = "running"]
                    /\ entered' = entered \cup {c}
               ELSE /\ Answer(w, FailedResult("state_write_failed"))
                    /\ UNCHANGED <<mem, entered>>
    BY DEF EnterHandler
  <1>2. /\ c \in Commands /\ mem.rec[c] # NoRecord /\ ~Terminal(mem.rec[c])
        /\ \A v \in Workers \ {w} : work[v].pc \notin {"resume", "running"}
    BY DEF EnterHandler, SettledInv, CallsInv, OneHandlerAtATime
  <1>3. /\ running \in States /\ running.seen = mem.seen
        /\ running.rec = [mem.rec EXCEPT ![c] = RunningRecord]
    BY <1>2 DEF SettledInv, ExecTypeOK, States, Records
  <1>4. /\ running.rec[c] = RunningRecord
        /\ \A d \in Commands : d # c => running.rec[d] = mem.rec[d]
    BY <1>2, <1>3 DEF SettledInv, ExecTypeOK, States
  <1>5. late' = late /\ won' = won /\ mem' \in {mem, running}
    BY <1>1 DEF EnterHandler
  <1> HIDE DEF running
  <1>6. RecordsSeen(running)
    BY <1>2, <1>3, <1>4 DEF SettledInv, RecordsSeen
  <1>7. \A d \in settled : Closed(running, d) /\ Closed(mem, d)
    BY <1>2, <1>3, <1>4 DEF SettledInv, Closed, ExecTypeOK
  <1>8. \A d \in Commands : Terminal(running.rec[d]) => Closed(mem, d) /\ Closed(running, d)
    BY <1>4, RecordFacts DEF Closed
  <1>9. mem' \in States /\ RecordsSeen(mem')
    BY <1>3, <1>5, <1>6 DEF SettledInv, ExecTypeOK
  <1>10. /\ disk' \in States /\ RecordsSeen(disk')
         /\ settled' = settled \cup {d \in Commands : Terminal(disk'.rec[d])}
         /\ \A d \in settled' : Closed(mem', d) /\ Closed(disk', d)
    <2>1. \A d \in settled : Closed(running, d) /\ Closed(mem', d)
      BY <1>5, <1>7
    <2>2. \A d \in Commands : p.written /\ Terminal(running.rec[d]) => Closed(mem', d)
      BY <1>5, <1>8
    <2> QED BY <1>1, <1>3, <1>6, <1>9, <2>1, <2>2, PersistSettles
  <1>11. CASE p.ok
    <2> DEFINE k == [work[w] EXCEPT !.pc = "running"]
    <2>1. k \in Works /\ k.pc = "running" /\ k.cmd = c
      BY DEF SettledInv, ExecTypeOK, Works
    <2>2. work' = [work EXCEPT ![w] = k] /\ mem' = running /\ entered' = entered \cup {c}
      BY <1>1, <1>11
    <2> HIDE DEF k
    <2>3. entered' \subseteq Commands /\ late' \subseteq Commands /\ won' \subseteq Commands
      BY <1>2, <1>5, <2>2 DEF SettledInv, ExecTypeOK
    <2>4. mem'.rec[k.cmd] # NoRecord /\ ~Terminal(mem'.rec[k.cmd])
      BY <1>4, <2>1, <2>2, RecordFacts
    <2> QED BY <1>2, <1>9, <1>10, <2>1, <2>2, <2>3, <2>4, RecordStep
  <1>12. CASE ~p.ok
    <2> DEFINE r == FailedResult("state_write_failed")
               k == [work[w] EXCEPT !.pc = "answer", !.res = r]
    <2>1. r \in Results
      BY FailedResults DEF RefusalCodes
    <2>2. k \in Works /\ k.pc = "answer" /\ k.cmd = c
      BY <2>1 DEF SettledInv, ExecTypeOK, Works
    <2>3. work' = [work EXCEPT ![w] = k] /\ entered' = entered
      BY <1>1, <1>12 DEF Answer
    <2> HIDE DEF k
    <2>4. entered' \subseteq Commands /\ late' \subseteq Commands /\ won' \subseteq Commands
      BY <1>5, <2>3 DEF SettledInv, ExecTypeOK
    <2> QED BY <1>2, <1>9, <1>10, <2>2, <2>3, <2>4, RecordStep
  <1> QED BY <1>11, <1>12

\* Leaving the handler: a terminal record on disk settles the command and the
\* watermark closes it for good.
LEMMA LeaveHandlerPreserves ==
    ASSUME SettledInv, NEW w \in Workers, LeaveHandler(w)
    PROVE  SettledInv'
  <1> DEFINE c == work[w].cmd
             Recorded(o) ==
                 [rec |-> [mem.rec EXCEPT ![c] = o],
                  seen |-> mem.seen,
                  done |-> IF Terminal(o) /\ c > mem.done THEN c ELSE mem.done]
  <1>1. PICK o \in HandlerOutcomes, p \in PersistOutcomes :
            /\ mem' = Recorded(o)
            /\ Persist(Recorded(o), p)
            /\ Answer(w, IF p.ok THEN o ELSE FailedResult("state_write_failed"))
            /\ entered' = IF o = Staged THEN entered \ {c} ELSE entered
            /\ won' = IF o = Succeeded THEN won \cup {c} ELSE won
    BY DEF LeaveHandler, OutcomeState
  <1> DEFINE st == Recorded(o)
             r == IF p.ok THEN o ELSE FailedResult("state_write_failed")
             k == [work[w] EXCEPT !.pc = "answer", !.res = r]
  <1>2. /\ c \in Commands /\ mem.rec[c] # NoRecord /\ ~Terminal(mem.rec[c])
        /\ \A v \in Workers \ {w} : work[v].pc \notin {"resume", "running"}
    BY DEF LeaveHandler, SettledInv, CallsInv, OneHandlerAtATime
  <1>3. o \in Outcomes /\ o \in Records /\ r \in Results
    BY HandlerOutcomesAssumption, FailedResults DEF Records, Results, RefusalCodes
  <1>4. st \in States /\ st.seen = mem.seen /\ st.rec[c] = o
        /\ \A d \in Commands : d # c => st.rec[d] = mem.rec[d]
    <2>1. mem.rec \in [Commands -> Records] /\ mem.seen \in 0..MaxCommand /\ mem.done \in 0..MaxCommand
      BY DEF SettledInv, ExecTypeOK, States
    <2>2. [mem.rec EXCEPT ![c] = o] \in [Commands -> Records]
      BY <1>3, <2>1
    <2>3. (IF Terminal(o) /\ c > mem.done THEN c ELSE mem.done) \in 0..MaxCommand
      BY <1>2, <2>1 DEF Commands
    <2>4. st \in States
      BY <2>1, <2>2, <2>3 DEF States
    <2> QED BY <1>2, <2>1, <2>4
  <1>5. k \in Works /\ k.pc = "answer" /\ k.cmd = c
    BY <1>3 DEF SettledInv, ExecTypeOK, Works
  <1>6. work' = [work EXCEPT ![w] = k] /\ late' = late /\ mem' = st /\ Persist(st, p)
    BY <1>1 DEF Answer, LeaveHandler
  <1>7. entered' \subseteq Commands /\ won' \subseteq Commands /\ late' \subseteq Commands
    BY <1>1, <1>2, <1>6 DEF SettledInv, ExecTypeOK
  <1> HIDE DEF k, r, st, Recorded
  <1>8. RecordsSeen(st)
    BY <1>2, <1>4 DEF SettledInv, RecordsSeen
  <1>9. \A d \in settled : Closed(st, d)
    BY <1>2, <1>4 DEF SettledInv, Closed, ExecTypeOK
  <1>10. \A d \in Commands : Terminal(st.rec[d]) => Closed(st, d)
    BY DEF Closed
  <1>11. /\ disk' \in States /\ RecordsSeen(disk')
         /\ settled' = settled \cup {d \in Commands : Terminal(disk'.rec[d])}
         /\ \A d \in settled' : Closed(mem', d) /\ Closed(disk', d)
    BY <1>4, <1>6, <1>8, <1>9, <1>10, PersistSettles
  <1> QED BY <1>2, <1>4, <1>5, <1>6, <1>7, <1>8, <1>11, RecordStep

\* The worker takes the answer.
LEMMA ReturnPreserves ==
    ASSUME SettledInv, NEW w \in Workers, Return(w)
    PROVE  SettledInv'
  <1>1. Idle \in Works /\ Idle.pc = "idle"
    BY MaxCommandAssumption DEF Idle, Works
  <1>2. late' \subseteq Commands
    BY DEF Return, SettledInv, ExecTypeOK
  <1> QED BY <1>1, <1>2, WorkStep DEF Return

\* After a crash memory is what the disk holds, and that is closed as well.
LEMMA CrashPreserves ==
    ASSUME SettledInv, AgentCrash
    PROVE  SettledInv'
  <1>1. Idle \in Works /\ Idle.pc = "idle"
    BY MaxCommandAssumption DEF Idle, Works
  <1>2. \A w \in Workers : work'[w] = Idle
    BY DEF AgentCrash
  <1>3. ExecTypeOK'
    BY <1>1 DEF SettledInv, ExecTypeOK, AgentCrash
  <1>4. CallsInv' /\ OneHandlerAtATime'
    BY <1>1, <1>2 DEF CallsInv, OneHandlerAtATime
  <1>5. RecordsSeen(mem)' /\ RecordsSeen(disk)'
    BY DEF SettledInv, AgentCrash, RecordsSeen
  <1>6. \A c \in settled' : Closed(mem, c)' /\ Closed(disk, c)'
    BY DEF SettledInv, AgentCrash, Closed
  <1>7. \A c \in Commands : Terminal(disk.rec[c])' => c \in settled'
    BY DEF SettledInv, AgentCrash, Terminal
  <1> QED BY <1>3, <1>4, <1>5, <1>6, <1>7 DEF SettledInv

\* A step that leaves the executor alone, or only the clock.
LEMMA IdlePreserves ==
    ASSUME SettledInv, UNCHANGED <<mem, disk, work, settled, entered, won>>,
           late' \subseteq Commands
    PROVE  SettledInv'
  BY DEF SettledInv, ExecTypeOK, CallsInv, OneHandlerAtATime, RecordsSeen, Closed, Terminal

\* Every step of the executor keeps the inductive invariant.
LEMMA SettledNext ==
    ASSUME SettledInv, [ExecNext]_execVars
    PROVE  SettledInv'
  <1>1. ASSUME NEW w \in Workers, NEW c \in Commands, Call(w, c) PROVE SettledInv'
    BY <1>1, CallPreserves
  <1>2. ASSUME NEW w \in Workers, ExecuteStep(w) PROVE SettledInv'
    BY <1>2, RejectEnvelopePreserves, ReturnPriorPreserves, ResumePreserves, RefusePreserves,
       AcceptPreserves, EnterHandlerPreserves, LeaveHandlerPreserves DEF ExecuteStep
  <1>3. ASSUME NEW w \in Workers, Return(w) PROVE SettledInv'
    BY <1>3, ReturnPreserves
  <1>4. ASSUME NEW c \in Commands, Elapse(c) PROVE SettledInv'
    BY <1>4, IdlePreserves DEF Elapse, SettledInv, ExecTypeOK
  <1>5. CASE UNCHANGED execVars
    BY <1>5, IdlePreserves DEF execVars, SettledInv, ExecTypeOK
  <1> QED BY <1>1, <1>2, <1>3, <1>4, <1>5, CrashPreserves DEF ExecNext

-----------------------------------------------------------------------------
\* The executor's state always has its type.
THEOREM ExecTypeCorrect == ExecSpec => []ExecTypeOK
  <1>1. SettledInv => ExecTypeOK
    BY DEF SettledInv
  <1> QED BY <1>1, SettledInit, SettledNext, PTL DEF ExecSpec

\* Once a command's terminal record has been on disk its handler never runs
\* again: through any crashes, failed writes, trimmed records, and commands
\* delivered any number of times in any order to any number of sessions.
THEOREM SettledNeverRunsAgain == ExecSpec => []SettledNeverRuns
  <1>1. SettledInv => SettledNeverRuns
    <2> SUFFICES ASSUME SettledInv, NEW w \in Workers, work[w].pc = "running"
                 PROVE  work[w].cmd \notin settled
      BY DEF SettledNeverRuns
    <2>1. mem.rec[work[w].cmd] # NoRecord /\ ~Terminal(mem.rec[work[w].cmd])
      BY DEF SettledInv, CallsInv
    <2> QED BY <2>1 DEF SettledInv, Closed
  <1> QED BY <1>1, SettledInit, SettledNext, PTL DEF ExecSpec

\* Two sessions of one Agent never execute at the same time.
THEOREM ExecutionIsSerial == ExecSpec => []OneHandlerAtATime
  <1>1. SettledInv => OneHandlerAtATime
    BY DEF SettledInv
  <1> QED BY <1>1, SettledInit, SettledNext, PTL DEF ExecSpec
-----------------------------------------------------------------------------
\* Where the calls are after a step: everyone but the worker w stays, and w only
\* comes to be inside its handler by EnterHandler.
LEMMA OthersStay ==
    ASSUME SettledInv, NEW w \in Workers,
           (\E c \in Commands : Call(w, c)) \/ ExecuteStep(w) \/ Return(w)
    PROVE  /\ \A v \in Workers \ {w} : work'[v] = work[v]
           /\ ~EnterHandler(w) => work'[w].pc # "running"
  <1>1. work \in [Workers -> Works] /\ work[w] \in Works
    BY DEF SettledInv, ExecTypeOK
  <1>2. ASSUME NEW r, Answer(w, r)
        PROVE  (\A v \in Workers \ {w} : work'[v] = work[v]) /\ work'[w].pc # "running"
    BY <1>1, <1>2 DEF Answer, Works
  <1>3. CASE (\E c \in Commands : Call(w, c)) \/ Return(w)
    BY <1>1, <1>3 DEF Call, Return, Idle
  <1>4. CASE RejectEnvelope(w) \/ ReturnPrior(w) \/ Refuse(w)
    BY <1>2, <1>4 DEF RejectEnvelope, ReturnPrior, Refuse
  <1>5. CASE Resume(w) \/ Accept(w)
    BY <1>1, <1>2, <1>5 DEF Resume, Accept, Works
  <1>6. CASE EnterHandler(w)
    BY <1>1, <1>2, <1>6 DEF EnterHandler, Works
  <1>7. CASE LeaveHandler(w)
    BY <1>2, <1>7 DEF LeaveHandler
  <1> QED BY <1>3, <1>4, <1>5, <1>6, <1>7 DEF ExecuteStep

\* Memory and disk only change under executeMu, and nobody else is in a handler then.
LEMMA WritesExclude ==
    ASSUME SettledInv, NEW w \in Workers,
           (\E c \in Commands : Call(w, c)) \/ ExecuteStep(w) \/ Return(w),
           NEW v \in Workers \ {w}, work[v].pc = "running"
    PROVE  UNCHANGED <<mem, disk>>
  <1>1. ~Accept(w)
    BY DEF Accept, Locks, ExecuteMuFree
  <1>2. ~EnterHandler(w) /\ ~LeaveHandler(w)
    BY DEF EnterHandler, LeaveHandler, SettledInv, OneHandlerAtATime
  <1> QED BY <1>1, <1>2 DEF ExecuteStep, Call, Return, RejectEnvelope, ReturnPrior, Resume, Refuse

\* resumeLocked finds its record again when the handler returns, in memory and on
\* disk, however many sessions redeliver and whatever trimRecords drops meanwhile.
THEOREM RecordOutlivesHandler == ExecSpec => []RunningHasRecord
  <1>1. ExecInit => RunningHasRecord
    BY DEF ExecInit, RunningHasRecord, Idle
  <1>2. ASSUME SettledInv, RunningHasRecord, [ExecNext]_execVars PROVE RunningHasRecord'
    <2>1. ASSUME NEW w \in Workers,
                 (\E c \in Commands : Call(w, c)) \/ ExecuteStep(w) \/ Return(w)
          PROVE  RunningHasRecord'
      <3> SUFFICES ASSUME NEW v \in Workers, work'[v].pc = "running"
                   PROVE  /\ mem'.rec[work'[v].cmd] = RunningRecord
                          /\ disk'.rec[work'[v].cmd] = RunningRecord
        BY DEF RunningHasRecord
      <3>1. CASE v # w
        <4>1. work'[v] = work[v] /\ work[v].pc = "running"
          BY <1>2, <2>1, <3>1, OthersStay
        <4>2. mem' = mem /\ disk' = disk
          BY <1>2, <2>1, <3>1, <4>1, WritesExclude
        <4> QED BY <1>2, <4>1, <4>2 DEF RunningHasRecord
      <3>2. CASE v = w
        <4>1. EnterHandler(w)
          BY <1>2, <2>1, <3>2, OthersStay
        <4> DEFINE running == [mem EXCEPT !.rec = [@ EXCEPT ![work[w].cmd] = RunningRecord]]
        <4>2. PICK p \in PersistOutcomes :
                  /\ Persist(running, p)
                  /\ p.ok => mem' = running /\ work' = [work EXCEPT ![w].pc = "running"]
                  /\ ~p.ok => Answer(w, FailedResult("state_write_failed"))
          BY <4>1 DEF EnterHandler
        <4>3. work \in [Workers -> Works] /\ work[w] \in Works
          BY <1>2 DEF SettledInv, ExecTypeOK
        <4>4. p.ok
          BY <3>2, <4>2, <4>3 DEF Answer, Works
        <4>5. mem' = running /\ disk' = running /\ work'[w].cmd = work[w].cmd
          BY <4>2, <4>3, <4>4, PersistFacts DEF Works
        <4>6. work[w].cmd \in Commands /\ mem \in States
          BY <1>2, <4>1 DEF EnterHandler, SettledInv, CallsInv, ExecTypeOK
        <4>7. running.rec[work[w].cmd] = RunningRecord
          BY <4>6 DEF States
        <4> QED BY <3>2, <4>5, <4>7
      <3> QED BY <3>1, <3>2
    <2>2. CASE AgentCrash
      BY <2>2 DEF AgentCrash, RunningHasRecord, Idle
    <2>3. CASE UNCHANGED execVars \/ \E c \in Commands : Elapse(c)
      BY <1>2, <2>3 DEF execVars, Elapse, RunningHasRecord
    <2> QED BY <1>2, <2>1, <2>2, <2>3 DEF ExecNext
  <1> QED BY <1>1, <1>2, SettledInit, SettledNext, PTL DEF ExecSpec

-----------------------------------------------------------------------------
\* A handler that was entered, and did not stage an upgrade, is still inside or has
\* left a record, or a watermark, in memory that closes its command, whether or not
\* its outcome could be written.
EnteredIsClosed ==
    \A c \in entered :
        Closed(mem, c) \/ \E w \in Workers : work[w].pc = "running" /\ work[w].cmd = c

\* Memory never opens a command again before the process dies.
LEMMA ClosedStays ==
    ASSUME SettledInv, NEW w \in Workers,
           (\E c \in Commands : Call(w, c)) \/ ExecuteStep(w) \/ Return(w),
           NEW d \in Commands, Closed(mem, d)
    PROVE  Closed(mem', d)
  <1>0. mem \in States /\ mem.rec \in [Commands -> Records] /\ mem.seen \in 0..MaxCommand
    BY DEF SettledInv, ExecTypeOK, States
  <1>1. CASE UNCHANGED mem
    BY <1>1 DEF Closed
  <1>2. CASE Accept(w)
    <2> DEFINE c == work[w].cmd
               rec == [mem.rec EXCEPT ![c] = AcceptedRecord]
    <2>1. c \in Commands /\ mem.rec[c] = NoRecord /\ ~(c <= mem.seen)
      BY <1>2 DEF Accept, Locks, SettledInv, CallsInv, Refusal
    <2>2. d # c /\ d <= c
      BY <1>0, <2>1, RecordFacts DEF Closed, SettledInv, RecordsSeen, Commands
    <2>3. mem'.rec = TrimRecords(rec) /\ mem'.seen = c
      BY <1>2 DEF Accept, AcceptedState
    <2>4. rec \in [Commands -> Records] /\ rec[d] = mem.rec[d]
      BY <1>0, <2>1, <2>2 DEF Records
    <2> HIDE DEF c, rec
    <2>5. mem'.rec[d] \in {mem.rec[d], NoRecord}
      BY <2>3, <2>4, TrimForgets
    <2> QED BY <2>2, <2>3, <2>5 DEF Closed
  <1>3. CASE EnterHandler(w) \/ LeaveHandler(w)
    <2> DEFINE c == work[w].cmd
    <2>1. c \in Commands /\ mem.rec[c] # NoRecord /\ ~Terminal(mem.rec[c])
      BY <1>3 DEF EnterHandler, LeaveHandler, SettledInv, CallsInv
    <2>2. d # c
      BY <2>1 DEF Closed
    <2>3. ASSUME NEW r, NEW m, m.rec = [mem.rec EXCEPT ![c] = r] PROVE m.rec[d] = mem.rec[d]
      BY <1>0, <2>2, <2>3
    <2>4. \/ mem' = mem
          \/ mem'.seen = mem.seen /\ \E r : mem'.rec = [mem.rec EXCEPT ![c] = r]
      <3>1. CASE EnterHandler(w) /\ mem' # mem
        <4>1. mem' = [mem EXCEPT !.rec = [@ EXCEPT ![c] = RunningRecord]]
          BY <3>1 DEF EnterHandler
        <4> QED BY <1>0, <4>1 DEF States
      <3>2. CASE LeaveHandler(w)
        <4>1. PICK o \in HandlerOutcomes : mem' = OutcomeState(c, o)
          BY <3>2 DEF LeaveHandler
        <4>2. mem'.seen = mem.seen /\ mem'.rec = [mem.rec EXCEPT ![c] = o]
          BY <4>1 DEF OutcomeState
        <4> QED BY <4>2
      <3> QED BY <1>3, <3>1, <3>2
    <2> QED BY <2>3, <2>4 DEF Closed
  <1> QED BY <1>1, <1>2, <1>3 DEF ExecuteStep, Call, Return, RejectEnvelope, ReturnPrior, Resume, Refuse

LEMMA EnteredStep ==
    ASSUME SettledInv, EnteredIsClosed, [ExecNext]_execVars PROVE EnteredIsClosed'
  <1>1. ASSUME NEW w \in Workers,
               (\E c \in Commands : Call(w, c)) \/ ExecuteStep(w) \/ Return(w)
        PROVE  EnteredIsClosed'
    <2>0. /\ work \in [Workers -> Works] /\ work[w] \in Works
          /\ mem \in States /\ mem.rec \in [Commands -> Records] /\ entered \subseteq Commands
          /\ work[w].pc # "idle" => work[w].cmd \in Commands
      BY DEF SettledInv, ExecTypeOK, States, CallsInv
    <2>1. ASSUME NEW d \in entered, ~(work[w].pc = "running" /\ work[w].cmd = d)
          PROVE  Closed(mem', d) \/ \E v \in Workers : work'[v].pc = "running" /\ work'[v].cmd = d
      <3>1. CASE Closed(mem, d)
        BY <1>1, <2>0, <3>1, ClosedStays
      <3>2. CASE ~Closed(mem, d)
        <4>1. PICK v \in Workers : work[v].pc = "running" /\ work[v].cmd = d
          BY <3>2 DEF EnteredIsClosed
        <4>2. v # w
          BY <2>1, <4>1
        <4>3. work'[v] = work[v]
          BY <1>1, <4>2, OthersStay
        <4> QED BY <4>1, <4>3
      <3> QED BY <3>1, <3>2
    <2>2. CASE EnterHandler(w)
      <3>1. \/ entered' = entered
            \/ entered' = entered \cup {work[w].cmd} /\ work' = [work EXCEPT ![w].pc = "running"]
        BY <2>2 DEF EnterHandler
      <3>2. work[w].pc # "running"
        BY <2>2 DEF EnterHandler
      <3>3. CASE entered' = entered
        BY <2>1, <3>2, <3>3 DEF EnteredIsClosed, Closed
      <3>4. CASE entered' = entered \cup {work[w].cmd} /\ work' = [work EXCEPT ![w].pc = "running"]
        <4>1. work'[w].pc = "running" /\ work'[w].cmd = work[w].cmd
          BY <2>0, <3>4 DEF Works
        <4> QED BY <2>1, <3>2, <3>4, <4>1 DEF EnteredIsClosed, Closed
      <3> QED BY <3>1, <3>3, <3>4
    <2>3. CASE LeaveHandler(w)
      <3> DEFINE c == work[w].cmd
      <3>1. PICK o \in HandlerOutcomes :
              mem'.rec = [mem.rec EXCEPT ![c] = o] /\ entered' = IF o = Staged THEN entered \ {c} ELSE entered
        BY <2>3 DEF LeaveHandler, OutcomeState
      <3>2. c \in Commands /\ o \in Outcomes
        BY <2>0, <2>3, HandlerOutcomesAssumption DEF LeaveHandler
      <3>3. o # Staged => Closed(mem', c)
        <4>1. o # Staged => Terminal(o)
          BY <3>2 DEF Outcomes, Terminal, Succeeded, HandlerFailed
        <4>2. mem'.rec[c] = o
          BY <2>0, <3>1, <3>2
        <4> QED BY <4>1, <4>2 DEF Closed
      <3> QED BY <2>1, <3>1, <3>3 DEF EnteredIsClosed, Closed
    <2>4. CASE ~EnterHandler(w) /\ ~LeaveHandler(w)
      <3>1. entered' = entered
        BY <1>1, <2>4 DEF ExecuteStep, Call, Return, RejectEnvelope, ReturnPrior, Resume, Refuse, Accept
      <3>2. work[w].pc # "running"
        BY <1>1, <2>4 DEF ExecuteStep, Call, Return, RejectEnvelope, ReturnPrior, Resume, Refuse, Accept, Locks
      <3> QED BY <2>1, <3>1, <3>2 DEF EnteredIsClosed, Closed
    <2> QED BY <2>2, <2>3, <2>4
  <1>2. CASE AgentCrash
    BY <1>2 DEF AgentCrash, EnteredIsClosed
  <1>3. CASE UNCHANGED execVars \/ \E c \in Commands : Elapse(c)
    BY <1>3 DEF execVars, Elapse, EnteredIsClosed, Closed
  <1> QED BY <1>1, <1>2, <1>3 DEF ExecNext

\* One life of the Agent runs a handler once, unless the handler asks to be resumed,
\* for every number of sessions and of redeliveries, and with writes that fail.
THEOREM HandlersRunOncePerLife == ExecSpec => RunsOncePerLife
  <1>1. ExecInit => EnteredIsClosed
    BY DEF ExecInit, EnteredIsClosed
  <1>2. ASSUME SettledInv, EnteredIsClosed, NEW w \in Workers, work[w].pc = "resume"
        PROVE  work[w].cmd \notin entered
    <2>1. ~Closed(mem, work[w].cmd)
      BY <1>2 DEF SettledInv, CallsInv, Closed
    <2>2. \A v \in Workers : work[v].pc # "running"
      BY <1>2 DEF SettledInv, OneHandlerAtATime
    <2> QED BY <1>2, <2>1, <2>2 DEF EnteredIsClosed
  <1>3. SettledInv /\ EnteredIsClosed =>
          \A w \in Workers :
             work[w].pc = "resume" /\ work'[w].pc = "running" => work[w].cmd \notin entered
    BY <1>2
  <1> QED BY <1>1, <1>3, EnteredStep, SettledInit, SettledNext, PTL DEF ExecSpec, RunsOncePerLife
=============================================================================
