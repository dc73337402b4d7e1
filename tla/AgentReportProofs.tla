-------------------------- MODULE AgentReportProofs --------------------------
(***************************************************************************)
(* What the Agent's way of reporting keeps for every value of the          *)
(* constants: its scheduler, its outbox and its egress addresses.          *)
(***************************************************************************)
EXTENDS Scheduler, Reporting, EgressIP, Sums, TLAPS

\* The calls that have joined the waiters and not returned.
Joined(q) == req[q] \in {"registered", "waiting"}

\* The loop ends only when it is told to.
EndIsTold == loop \in {"failing", "done"} => stopped \/ cancelled

\* Waiters are held by a collection only while it runs.
TakenWhileCollecting == loop # "collecting" => taken = {}

\* A call that has not joined has no answer and is in no collection; one in the
\* list has joined and has no answer yet; one that was taken had joined before
\* the collection began.
WaitersJoined ==
    /\ \A q \in Callers : req[q] \in {"idle", "entered"} => resp[q] = "none" /\ q \notin taken
    /\ \A q \in waiters : Joined(q) /\ resp[q] = "none" /\ q \notin taken
    /\ taken \subseteq before

\* Until the scheduler is told to end, a call that has joined is accounted for.
JoinedIsHeld ==
    \A q \in Callers :
        Joined(q) /\ ~stopped /\ ~cancelled => resp[q] # "none" \/ q \in taken \/ q \in waiters

\* The inductive invariant behind NoLostWakeup and AnswerIsFresh.
SchedInv ==
    /\ SchedTypeOK
    /\ EndIsTold
    /\ TakenWhileCollecting
    /\ WaitersJoined
    /\ JoinedIsHeld
    /\ NoLostWakeup

-----------------------------------------------------------------------------
\* Before the first collection nobody waits.
LEMMA SchedInitInv == SchedInit => SchedInv
  BY DEF SchedInit, SchedInv, SchedTypeOK, EndIsTold, TakenWhileCollecting, WaitersJoined,
         JoinedIsHeld, NoLostWakeup, Joined

\* Every step keeps the types.
LEMMA SchedTypeStep == SchedTypeOK /\ [SchedNext]_schedVars => SchedTypeOK'
  <1> SUFFICES ASSUME SchedTypeOK, [SchedNext]_schedVars PROVE SchedTypeOK'
    OBVIOUS
  <1> USE DEF SchedTypeOK
  <1>1. ASSUME NEW q \in Callers, CallNext(q) PROVE SchedTypeOK'
    BY <1>1 DEF CallNext, Enter, Register, Ask, Receive, GiveUp, SessionLost, AfterTrigger, loopVars
  <1>2. ASSUME LoopNext PROVE SchedTypeOK'
    <2>1. CASE Take BY <2>1 DEF Take, callVars
    <2>2. CASE CollectEnds BY <2>2 DEF CollectEnds, AnswerAll, AnsweredBy
    <2>3. CASE Checks
      <3>1. loop' \in {"failing", "pending", "select"} BY <2>3, Zenon DEF Checks
      <3>2. trigger' \in BOOLEAN BY <2>3, Zenon DEF Checks
      <3>3. UNCHANGED <<stopped, cancelled, waiters, taken, before, req, resp, ctx, runtime>>
        BY <2>3 DEF Checks, callVars
      <3> QED BY <3>1, <3>2, <3>3
    <2>4. CASE SelectOver \/ SelectTrigger \/ SelectTimer
      BY <2>4 DEF SelectOver, SelectTrigger, SelectTimer, callVars
    <2>5. CASE FailWaiters BY <2>5 DEF FailWaiters, AnswerAll
    <2> QED BY <1>2, <2>1, <2>2, <2>3, <2>4, <2>5 DEF LoopNext
  <1>3. CASE Retrigger \/ Terminate \/ Stop \/ GraceOver \/ RunReturn
    BY <1>3 DEF Retrigger, Terminate, Stop, GraceOver, RunReturn, AfterTrigger, loopVars, callVars
  <1>4. CASE UNCHANGED schedVars BY <1>4 DEF schedVars, loopVars, callVars
  <1> QED BY <1>1, <1>2, <1>3, <1>4 DEF SchedNext

\* A step of a call keeps the invariant.
LEMMA CallStep ==
    ASSUME SchedInv, SchedTypeOK', NEW p \in Callers, CallNext(p)
    PROVE  SchedInv'
  <1> USE DEF SchedInv, SchedTypeOK, EndIsTold, TakenWhileCollecting, WaitersJoined,
              JoinedIsHeld, NoLostWakeup, Joined, loopVars
  <1>1. CASE Enter(p) BY <1>1 DEF Enter
  <1>2. CASE Register(p) BY <1>2 DEF Register
  <1>3. CASE Ask(p)
    <2>1. ~stopped => trigger' BY <1>3, Zenon DEF Ask, AfterTrigger
    <2>2. trigger => trigger' BY <1>3, Zenon DEF Ask, AfterTrigger
    <2>3. /\ UNCHANGED <<stopped, cancelled, waiters, loop, taken, before, resp>>
          /\ req[p] = "registered" /\ req' = [req EXCEPT ![p] = "waiting"]
      BY <1>3 DEF Ask
    <2>4. NoLostWakeup' BY <2>1, <2>2, <2>3
    <2> QED BY <2>3, <2>4
  <1>4. CASE Receive(p) BY <1>4 DEF Receive
  <1>5. CASE GiveUp(p) BY <1>5 DEF GiveUp
  <1>6. CASE SessionLost(p) BY <1>6 DEF SessionLost
  <1> QED BY <1>1, <1>2, <1>3, <1>4, <1>5, <1>6 DEF CallNext

\* A step of the loop keeps the invariant.
LEMMA LoopStep ==
    ASSUME SchedInv, SchedTypeOK', LoopNext
    PROVE  SchedInv'
  <1> USE DEF SchedInv, SchedTypeOK, EndIsTold, TakenWhileCollecting, WaitersJoined,
              JoinedIsHeld, NoLostWakeup, Joined, callVars
  <1>1. CASE Take BY <1>1 DEF Take
  <1>2. CASE CollectEnds BY <1>2 DEF CollectEnds, AnswerAll, AnsweredBy
  <1>3. CASE Checks BY <1>3 DEF Checks, Over
  <1>4. CASE SelectOver BY <1>4 DEF SelectOver, Over
  <1>5. CASE SelectTrigger BY <1>5 DEF SelectTrigger
  <1>6. CASE SelectTimer BY <1>6 DEF SelectTimer
  <1>7. CASE FailWaiters BY <1>7 DEF FailWaiters, AnswerAll
  <1> QED BY <1>1, <1>2, <1>3, <1>4, <1>5, <1>6, <1>7 DEF LoopNext

\* A step of Runtime.Run or of a reload keeps the invariant.
LEMMA RuntimeStep ==
    ASSUME SchedInv, SchedTypeOK', Retrigger \/ Terminate \/ Stop \/ GraceOver \/ RunReturn
    PROVE  SchedInv'
  <1> USE DEF SchedInv, SchedTypeOK, EndIsTold, TakenWhileCollecting, WaitersJoined,
              JoinedIsHeld, NoLostWakeup, Joined, loopVars, callVars
  <1>1. CASE Retrigger BY <1>1 DEF Retrigger, AfterTrigger
  <1>2. CASE Terminate BY <1>2 DEF Terminate
  <1>3. CASE Stop BY <1>3 DEF Stop
  <1>4. CASE GraceOver BY <1>4 DEF GraceOver
  <1>5. CASE RunReturn BY <1>5 DEF RunReturn
  <1> QED BY <1>1, <1>2, <1>3, <1>4, <1>5

\* Every step keeps the inductive invariant.
LEMMA SchedStep == SchedInv /\ [SchedNext]_schedVars => SchedInv'
  <1> SUFFICES ASSUME SchedInv, [SchedNext]_schedVars PROVE SchedInv'
    OBVIOUS
  <1>1. SchedTypeOK' BY SchedTypeStep DEF SchedInv
  <1>2. CASE UNCHANGED schedVars
    BY <1>2, <1>1 DEF schedVars, loopVars, callVars, SchedInv, EndIsTold, TakenWhileCollecting,
                      WaitersJoined, JoinedIsHeld, NoLostWakeup, Joined
  <1>3. CASE SchedNext BY <1>1, <1>3, CallStep, LoopStep, RuntimeStep DEF SchedNext
  <1> QED BY <1>2, <1>3

-----------------------------------------------------------------------------
\* The invariant holds in every state.
THEOREM SchedInvariant == SchedSpec => []SchedInv
  BY SchedInitInv, SchedStep, PTL DEF SchedSpec

\* The types of the scheduler's state are kept by every step of the loop, of
\* the calls of Request and of Runtime.Run.
THEOREM SchedTypeCorrect == SchedSpec => []SchedTypeOK
  <1>1. SchedInv => SchedTypeOK BY DEF SchedInv
  <1> QED BY <1>1, SchedInvariant, PTL

\* Request joins the waiters before it fills the trigger, and Run empties the
\* trigger before it takes the waiters: no call is ever left to the timer.
THEOREM WakeupsAreNotLost == SchedSpec => []NoLostWakeup
  <1>1. SchedInv => NoLostWakeup BY DEF SchedInv
  <1> QED BY <1>1, SchedInvariant, PTL

\* A result is only given to calls that joined before its collection began.
THEOREM AnswersAreFresh == SchedSpec => AnswerIsFresh
  <1> DEFINE Fresh == \A q \in Callers :
                         resp[q] = "none" /\ resp'[q] \in {"ok", "failed"} => q \in before
  <1>1. SchedInv /\ [SchedNext]_schedVars => [Fresh]_schedVars
    <2> SUFFICES ASSUME SchedInv, SchedNext PROVE Fresh
      OBVIOUS
    <2>1. ASSUME NEW p \in Callers, CallNext(p) PROVE Fresh
      BY <2>1 DEF CallNext, Enter, Register, Ask, Receive, GiveUp, SessionLost
    <2>2. CASE CollectEnds
      BY <2>2 DEF CollectEnds, AnswerAll, AnsweredBy, SchedInv, WaitersJoined
    <2>3. CASE FailWaiters BY <2>3 DEF FailWaiters, AnswerAll
    <2>4. CASE Take \/ Checks \/ SelectOver \/ SelectTrigger \/ SelectTimer
      BY <2>4 DEF Take, Checks, SelectOver, SelectTrigger, SelectTimer, callVars
    <2>5. CASE Retrigger \/ Terminate \/ Stop \/ GraceOver \/ RunReturn
      BY <2>5 DEF Retrigger, Terminate, Stop, GraceOver, RunReturn, callVars
    <2> QED BY <2>1, <2>2, <2>3, <2>4, <2>5 DEF SchedNext, LoopNext
  <1>2. SchedSpec => [][Fresh]_schedVars
    BY <1>1, SchedInvariant, PTL DEF SchedSpec
  <1> QED BY <1>2 DEF AnswerIsFresh

-----------------------------------------------------------------------------
(* The outbox (Reporting): AcknowledgedWasAccepted holds because a record   *)
(* of the call under way is owed to the Panel until the Panel accepted it   *)
(* or it was damaged, and because a destination is crossed out only after   *)
(* its answer.                                                              *)

\* Of the call under way: what the steps below read of it.
SendTypes == [pc : {"idle", "put", "flush", "ack"}, cur : 0 .. MaxReport, conf : Configs \cup {<<>>},
              todo : SUBSET (Reports \X Int), left : Int]

ReportTypes ==
    /\ file \in [Reports -> SUBSET Int]
    /\ stamp \in [Reports -> Int]
    /\ DOMAIN got = Reports
    /\ conf \in Configs
    /\ last \in 0 .. MaxReport
    /\ send \in SendTypes
    /\ send.pc = "idle" <=> send.cur = 0

\* A record the Panel has neither accepted nor lost to damage is owed to it.
OwedInv == send.cur # 0 => 0 \in file[send.cur] \/ "panel" \in got[send.cur] \/ send.cur \in damaged

\* What is about to be crossed out was accepted.
CrossInv == send.pc = "ack" => \E p \in send.todo : First(p) /\ (p[2] = 0 => "panel" \in got[p[1]])

AckInv == ReportTypes /\ OwedInv /\ CrossInv

\* No call under way.
LEMMA NoSendFacts == NoSend \in SendTypes /\ NoSend.pc = "idle" /\ NoSend.cur = 0
  BY ReportingAssumption DEF NoSend, SendTypes

\* A configuration is a finite list of webhooks.
LEMMA ConfigFacts == \A c \in Configs \cup {<<>>} : Len(c) \in Nat /\ DOMAIN c = 1 .. Len(c)
  <1>1. Configs \subseteq Seq(STRING) /\ <<>> \in Seq(STRING)
    BY ReportingAssumption
  <1> QED BY <1>1

LEMMA AckInit == ReportingInit => AckInv
  <1> SUFFICES ASSUME ReportingInit PROVE AckInv
    OBVIOUS
  <1>1. file \in [Reports -> SUBSET Int] /\ stamp \in [Reports -> Int] /\ DOMAIN got = Reports
    <2>1. file = [r \in Reports |-> {}] /\ stamp = [r \in Reports |-> r] /\ got = [r \in Reports |-> {}]
      BY DEF ReportingInit
    <2>2. file \in [Reports -> SUBSET Int]
      BY <2>1
    <2>3. stamp \in [Reports -> Int]
      BY <2>1 DEF Reports
    <2> QED BY <2>1, <2>2, <2>3
  <1>2. conf \in Configs /\ last \in 0 .. MaxReport
    <2>1. conf \in Configs /\ last = 0
      BY DEF ReportingInit
    <2>2. MaxReport \in Nat
      BY ReportingAssumption
    <2> QED BY <2>1, <2>2
  <1>3. send \in SendTypes /\ (send.pc = "idle" <=> send.cur = 0)
    BY NoSendFacts DEF ReportingInit
  <1>4. ReportTypes
    BY <1>1, <1>2, <1>3 DEF ReportTypes
  <1>5. OwedInv /\ CrossInv
    BY NoSendFacts DEF ReportingInit, OwedInv, CrossInv
  <1> QED BY <1>4, <1>5 DEF AckInv

\* Flush is at one destination of one record.
LEMMA FirstIsOne ==
    ASSUME ReportTypes, NEW p \in send.todo, NEW q \in send.todo, First(p), First(q) PROVE p = q
  <1>1. p \in Reports \X Int /\ q \in Reports \X Int /\ stamp[p[1]] \in Int /\ stamp[q[1]] \in Int
    BY DEF ReportTypes, SendTypes
  <1>2. stamp[p[1]] < stamp[q[1]] \/ (p[1] = q[1] /\ p[2] <= q[2])
    BY DEF First
  <1>3. stamp[q[1]] < stamp[p[1]] \/ (q[1] = p[1] /\ q[2] <= p[2])
    BY DEF First
  <1>4. p[1] = q[1] /\ p[2] = q[2]
    BY <1>1, <1>2, <1>3
  <1> QED BY <1>1, <1>4

\* List drops whole records.
LEMMA AfterListFacts ==
    ASSUME ReportTypes, NEW kept
    PROVE  /\ AfterList(kept) \in [Reports -> SUBSET Int]
           /\ \A r \in Reports : AfterList(kept)[r] = IF r \in kept THEN file[r] ELSE {}
  BY DEF ReportTypes, AfterList

\* What the property says of a step.
Accepted == send.cur # 0 /\ send'.cur = 0 /\ lastReport' = "report_acknowledged" =>
               "panel" \in got[send.cur] \/ send.cur \in damaged

\* A new report is owed to the Panel from the start.
LEMMA CollectKeeps == ASSUME AckInv, Collect PROVE AckInv' /\ Accepted
  <1>0. ReportTypes /\ last + 1 \in Reports /\ Len(conf) \in Nat
    BY ReportingAssumption, ConfigFacts DEF AckInv, ReportTypes, Collect, Reports
  <1>1. /\ send'.pc = "put" /\ send'.cur = last + 1 /\ send' \in SendTypes
    BY <1>0, ReportingAssumption DEF Collect, SendTypes, ReportTypes, Reports
  <1>2. file' \in [Reports -> SUBSET Int] /\ 0 \in file'[last + 1]
    BY <1>0 DEF Collect, ReportTypes
  <1>3. stamp' \in [Reports -> Int]
    <2> DEFINE at == IF clockBack THEN stamp[last + 1] - MaxReport ELSE stamp[last + 1]
    <2>1. at \in Int
      BY <1>0, ReportingAssumption DEF ReportTypes
    <2>2. stamp' = [stamp EXCEPT ![last + 1] = at]
      BY DEF Collect
    <2> HIDE DEF at
    <2> QED BY <1>0, <2>1, <2>2 DEF ReportTypes
  <1>4. last' \in 0 .. MaxReport /\ UNCHANGED <<got, conf>>
    BY <1>0 DEF Collect, Reports
  <1>5. ReportTypes'
    BY <1>0, <1>1, <1>2, <1>3, <1>4 DEF ReportTypes, Reports
  <1>6. Accepted /\ OwedInv' /\ CrossInv'
    BY <1>0, <1>1, <1>2 DEF Accepted, OwedInv, CrossInv, Collect, ReportTypes
  <1> QED BY <1>5, <1>6 DEF AckInv

\* A report the limits push out ends the call, unacknowledged.
LEMMA EnforceKeeps == ASSUME AckInv, Enforce PROVE AckInv' /\ Accepted
  <1> DEFINE kept == Kept(Readable)
  <1>0. ReportTypes /\ kept \subseteq Reports /\ send.pc = "put" /\ send.cur # 0
    BY DEF AckInv, ReportTypes, Enforce, Kept, Readable
  <1>1. file' = AfterList(kept) /\ UNCHANGED <<stamp, damaged, conf, clockBack, last, got, meant>>
    BY DEF Enforce
  <1> HIDE DEF kept
  <1>2. CASE send.cur \in kept
    <2> DEFINE todo == UNION {{<<r, d>> : d \in file[r]} : r \in kept}
    <2>1. send' = [send EXCEPT !.pc = "flush", !.todo = todo]
      BY <1>2 DEF Enforce, kept
    <2>2. todo \subseteq Reports \X Int
      BY <1>0 DEF ReportTypes
    <2> HIDE DEF todo
    <2>3. send' \in SendTypes /\ send'.pc = "flush" /\ send'.cur = send.cur
      BY <1>0, <2>1, <2>2 DEF ReportTypes, SendTypes
    <2>4. file' \in [Reports -> SUBSET Int] /\ file'[send.cur] = file[send.cur]
      BY <1>0, <1>1, <1>2, AfterListFacts
    <2>5. ReportTypes'
      BY <1>0, <1>1, <2>3, <2>4 DEF ReportTypes
    <2> QED BY <1>0, <1>1, <2>3, <2>4, <2>5 DEF AckInv, OwedInv, CrossInv, Accepted
  <1>3. CASE send.cur \notin kept
    <2>1. send' = NoSend /\ lastReport' = "panel_not_acknowledged"
      BY <1>3 DEF Enforce, kept
    <2>2. ReportTypes'
      BY <1>0, <1>1, <2>1, NoSendFacts, AfterListFacts DEF ReportTypes
    <2> QED BY <2>1, <2>2, NoSendFacts DEF AckInv, OwedInv, CrossInv, Accepted
  <1> QED BY <1>2, <1>3

\* The call goes on with the next destination, and nothing is crossed out.
LEMMA GoesOn ==
    ASSUME AckInv, send.cur # 0, NEW s \in SendTypes, send' = s, s.pc = "flush", s.cur = send.cur,
           UNCHANGED <<file, stamp, damaged, conf, last>>,
           DOMAIN got' = Reports, \A r \in Reports : got[r] \subseteq got'[r]
    PROVE  AckInv' /\ Accepted
  <1>1. ReportTypes'
    BY DEF AckInv, ReportTypes
  <1>2. send.cur \in Reports
    BY DEF AckInv, ReportTypes, SendTypes, Reports
  <1>3. OwedInv' /\ CrossInv' /\ Accepted
    BY <1>2 DEF AckInv, OwedInv, CrossInv, Accepted
  <1> QED BY <1>1, <1>3 DEF AckInv

\* The call without one of its destinations.
LEMMA DoneFacts ==
    ASSUME ReportTypes, NEW p, NEW s \in {Done(p), [Done(p) EXCEPT !.left = send.left - 1], [Done(p) EXCEPT !.pc = "flush"]}
    PROVE  s \in SendTypes /\ s.cur = send.cur /\ s.pc \in {send.pc, "flush"}
  <1> DEFINE rest == send.todo \ {p}
  <1>1. rest \subseteq Reports \X Int
    BY DEF ReportTypes, SendTypes
  <1>2. Done(p) = [send EXCEPT !.todo = rest]
    BY DEF Done
  <1> HIDE DEF rest
  <1>3. Done(p) \in SendTypes /\ Done(p).cur = send.cur /\ Done(p).pc = send.pc /\ Done(p).left = send.left
    BY <1>1, <1>2 DEF ReportTypes, SendTypes
  <1>4. send.left - 1 \in Int
    BY DEF ReportTypes, SendTypes
  <1> QED BY <1>3, <1>4 DEF SendTypes

\* Flush goes to the acknowledgement only with a 2xx of that very destination.
LEMMA SendKeeps ==
    ASSUME AckInv, NEW p, SkipUnknown(p) \/ Send(p) \/ Timeout
    PROVE  AckInv' /\ Accepted
  <1>0. ReportTypes /\ send.pc = "flush" /\ send.cur # 0 /\ UNCHANGED <<file, stamp, damaged, conf, last, lastReport>>
    BY DEF AckInv, ReportTypes, SkipUnknown, Send, Timeout, outboxVars
  <1>1. CASE SkipUnknown(p)
    <2>1. send' = Done(p) /\ got' = got
      BY <1>1 DEF SkipUnknown
    <2>2. Done(p) \in SendTypes /\ Done(p).pc = "flush" /\ Done(p).cur = send.cur
      BY <1>0, DoneFacts
    <2> QED BY <1>0, <2>1, <2>2, GoesOn DEF ReportTypes
  <1>2. CASE Timeout
    <2>1. send' = [send EXCEPT !.todo = {}] /\ got' = got
      BY <1>2 DEF Timeout
    <2>2. [send EXCEPT !.todo = {}] \in SendTypes /\ [send EXCEPT !.todo = {}].pc = send.pc
          /\ [send EXCEPT !.todo = {}].cur = send.cur
      BY <1>0 DEF ReportTypes, SendTypes
    <2> QED BY <1>0, <2>1, <2>2, GoesOn DEF ReportTypes
  <1>3. CASE Send(p)
    <2> DEFINE e == Endpoint(send.conf, p[2])
    <2>1. PICK o \in (IF p[2] = 0 THEN PanelSends ELSE HookSends) :
             /\ IF o \in {"ok", "lost"} THEN Accept(p[1], e) ELSE UNCHANGED got
             /\ send' = CASE o = "ok" -> [send EXCEPT !.pc = "ack"]
                          [] o = "hang" -> [AfterFailure(p) EXCEPT !.left = @ - 1]
                          [] OTHER -> AfterFailure(p)
      BY <1>3 DEF Send
    <2>2. p \in send.todo /\ First(p) /\ p[1] \in Reports
      BY <1>0, <1>3 DEF Send, ReportTypes, SendTypes
    <2>3. p[2] = 0 => e = "panel"
      BY DEF Endpoint
    <2> HIDE DEF e
    <2>4. /\ DOMAIN got' = Reports
          /\ \A r \in Reports : got[r] \subseteq got'[r]
          /\ o = "ok" => e \in got'[p[1]]
      BY <1>0, <2>1, <2>2 DEF Accept, ReportTypes
    <2>5. CASE o = "ok"
      <3>1. send' = [send EXCEPT !.pc = "ack"]
        BY <2>1, <2>5
      <3>2. send' \in SendTypes /\ send'.pc = "ack" /\ send'.cur = send.cur /\ send'.todo = send.todo
        BY <1>0, <3>1 DEF ReportTypes, SendTypes
      <3>3. ReportTypes'
        BY <1>0, <2>4, <3>2 DEF ReportTypes
      <3>4. First(p)'
        BY <1>0, <2>2, <3>2 DEF First
      <3>5. send.cur \in Reports
        BY <1>0 DEF ReportTypes, SendTypes, Reports
      <3>6. OwedInv' /\ Accepted
        BY <1>0, <2>4, <3>2, <3>5 DEF AckInv, OwedInv, Accepted
      <3>7. CrossInv'
        BY <2>2, <2>3, <2>4, <2>5, <3>2, <3>4 DEF CrossInv
      <3> QED BY <3>3, <3>6, <3>7 DEF AckInv
    <2>6. CASE o # "ok"
      <3>1. send' \in {Done(p), [Done(p) EXCEPT !.left = Done(p).left - 1]}
        BY <2>1, <2>6 DEF AfterFailure
      <3>2. Done(p).left = send.left
        BY <1>0 DEF Done, ReportTypes, SendTypes
      <3>3. send' \in {Done(p), [Done(p) EXCEPT !.left = send.left - 1]}
        BY <3>1, <3>2
      <3>4. send' \in SendTypes /\ send'.pc = "flush" /\ send'.cur = send.cur
        BY <1>0, <3>3, DoneFacts
      <3> QED BY <1>0, <2>4, <3>4, GoesOn
    <2> QED BY <2>5, <2>6
  <1> QED BY <1>1, <1>2, <1>3

\* What Ack crosses out was accepted.
LEMMA AckKeeps ==
    ASSUME AckInv, NEW p \in Reports \X Destinations, Ack(p) PROVE AckInv' /\ Accepted
  <1>0. /\ ReportTypes /\ send.pc = "ack" /\ send.cur \in Reports /\ send.cur # 0 /\ p \in send.todo /\ First(p)
        /\ UNCHANGED <<stamp, damaged, conf, last, lastReport, got>>
    BY DEF AckInv, ReportTypes, Ack, SendTypes, Reports
  <1>1. p[2] = 0 => "panel" \in got[p[1]]
    BY <1>0, FirstIsOne DEF AckInv, CrossInv
  <1>2. CASE /\ file' = [file EXCEPT ![p[1]] = CrossOut(p[1], p[2])]
             /\ send' = [Done(p) EXCEPT !.pc = "flush"]
    <2>1. send' \in SendTypes /\ send'.pc = "flush" /\ send'.cur = send.cur
      <3>1. send'.pc = "flush"
        BY <1>2 DEF Done, ReportTypes, SendTypes, AckInv
      <3> QED BY <1>0, <1>2, <3>1, DoneFacts
    <2>2. /\ file' \in [Reports -> SUBSET Int]
          /\ \A r \in Reports : file'[r] = IF r = p[1] THEN file[r] \ {p[2]} ELSE file[r]
      BY <1>0, <1>2 DEF CrossOut, ReportTypes
    <2>3. ReportTypes'
      BY <1>0, <2>1, <2>2 DEF ReportTypes
    <2>4. OwedInv' /\ CrossInv' /\ Accepted
      BY <1>0, <1>1, <2>1, <2>2 DEF AckInv, OwedInv, CrossInv, Accepted
    <2> QED BY <2>3, <2>4 DEF AckInv
  <1>3. CASE /\ send' = [send EXCEPT !.pc = "flush", !.todo = {}]
             /\ UNCHANGED file
    <2>1. [send EXCEPT !.pc = "flush", !.todo = {}] \in SendTypes
      BY <1>0 DEF ReportTypes, SendTypes
    <2>2. send'.pc = "flush" /\ send'.cur = send.cur
      BY <1>0, <1>3 DEF ReportTypes, SendTypes
    <2> QED BY <1>0, <1>3, <2>1, <2>2, GoesOn DEF ReportTypes
  <1> QED BY <1>2, <1>3 DEF Ack

\* What the last List does not find any more was accepted, or is damaged.
LEMMA CheckKeeps == ASSUME AckInv, Check PROVE AckInv' /\ Accepted
  <1>0. ReportTypes /\ send.cur # 0 /\ send.cur \in Reports
    BY DEF AckInv, ReportTypes, Check, SendTypes, Reports
  <1>1. file' = AfterList(Readable) /\ send' = NoSend /\ UNCHANGED <<stamp, damaged, conf, last, got>>
    BY DEF Check
  <1>2. file' \in [Reports -> SUBSET Int]
    BY <1>0, <1>1, AfterListFacts
  <1>3. ReportTypes'
    BY <1>0, <1>1, <1>2, NoSendFacts DEF ReportTypes
  <1>4. OwedInv' /\ CrossInv'
    BY <1>1, NoSendFacts DEF OwedInv, CrossInv
  <1>5. lastReport' = "report_acknowledged" => ~StillPending
    BY DEF Check
  <1>6. Accepted
    BY <1>0, <1>5 DEF Accepted, StillPending, Readable, AckInv, OwedInv
  <1> QED BY <1>3, <1>4, <1>6 DEF AckInv

\* What the world and the operator do leaves the call alone, or ends it.
LEMMA WorldKeeps ==
    ASSUME AckInv, CollectFails \/ Depth \/ Reload \/ Crash \/ ClockStep \/ \E r \in Reports : Damage(r)
    PROVE  AckInv' /\ Accepted
  <1>0. ReportTypes
    BY DEF AckInv
  <1>1. CASE CollectFails \/ Reload \/ ClockStep \/ \E r \in Reports : Damage(r)
    <2>1. UNCHANGED <<file, stamp, last, send, got>> /\ damaged \subseteq damaged' /\ conf' \in Configs
      BY <1>0, <1>1 DEF CollectFails, Reload, ClockStep, Damage, outboxVars, ReportTypes
    <2>2. ReportTypes'
      BY <1>0, <2>1 DEF ReportTypes
    <2>3. First(<<0, 0>>) = First(<<0, 0>>)'
      BY <2>1 DEF First
    <2>4. OwedInv' /\ CrossInv' /\ Accepted
      BY <2>1 DEF AckInv, OwedInv, CrossInv, Accepted, First
    <2> QED BY <2>2, <2>4 DEF AckInv
  <1>2. CASE Depth
    <2>1. file' = AfterList(Readable) /\ UNCHANGED <<stamp, damaged, conf, last, send, got>>
      BY <1>2 DEF Depth
    <2>2. /\ file' \in [Reports -> SUBSET Int]
          /\ \A r \in Reports : file'[r] = IF r \in Readable THEN file[r] ELSE {}
      BY <1>0, <2>1, AfterListFacts
    <2>3. ReportTypes'
      BY <1>0, <2>1, <2>2 DEF ReportTypes
    <2>4. send.cur # 0 => send.cur \in Reports
      BY <1>0 DEF ReportTypes, SendTypes, Reports
    <2>5. OwedInv'
      BY <2>1, <2>2, <2>4 DEF AckInv, OwedInv, Readable
    <2>6. CrossInv' /\ Accepted
      BY <2>1 DEF AckInv, CrossInv, Accepted, First
    <2> QED BY <2>3, <2>5, <2>6 DEF AckInv
  <1>3. CASE Crash
    <2>1. send' = NoSend /\ lastReport' = "" /\ UNCHANGED <<file, stamp, conf, last, got>>
      BY <1>3 DEF Crash, outboxVars
    <2>2. ReportTypes'
      BY <1>0, <2>1, NoSendFacts DEF ReportTypes
    <2> QED BY <2>1, <2>2, NoSendFacts DEF AckInv, OwedInv, CrossInv, Accepted
  <1> QED BY <1>1, <1>2, <1>3

LEMMA AckStep == ASSUME AckInv, [ReportingNext]_reportingVars PROVE AckInv' /\ Accepted
  <1>1. CASE UNCHANGED reportingVars
    <2>1. ReportTypes'
      BY <1>1 DEF reportingVars, outboxVars, AckInv, ReportTypes
    <2>2. OwedInv' /\ CrossInv' /\ Accepted
      BY <1>1 DEF reportingVars, outboxVars, AckInv, OwedInv, CrossInv, Accepted, First
    <2> QED BY <2>1, <2>2 DEF AckInv
  <1>2. CASE Timeout
    BY <1>2, SendKeeps
  <1> QED BY <1>1, <1>2, CollectKeeps, EnforceKeeps, SendKeeps, AckKeeps, CheckKeeps, WorldKeeps DEF ReportingNext

\* When collectOnce (runtime.go) reports report_acknowledged, the Panel has accepted
\* this very report or its record was damaged under way, for every limit of the
\* outbox and every configuration of webhooks, through lost answers, timeouts, full
\* disks, reloads and steps of the clock.
THEOREM AcknowledgedReportsWereAccepted == ReportingSpec => AcknowledgedWasAccepted
  <1>1. AckInv /\ [ReportingNext]_reportingVars => AckInv'
    BY AckStep
  <1>2. AckInv /\ [ReportingNext]_reportingVars =>
          [send.cur # 0 /\ send'.cur = 0 /\ lastReport' = "report_acknowledged" =>
              "panel" \in got[send.cur] \/ send.cur \in damaged]_reportingVars
    BY AckStep DEF Accepted
  <1> QED BY <1>1, <1>2, AckInit, PTL DEF ReportingSpec, AcknowledgedWasAccepted

-----------------------------------------------------------------------------
(* The limits of the outbox.                                                *)

\* A part of what is within the limits is within them.
LEMMA FitsPart ==
    ASSUME NEW S \in SUBSET Reports, NEW P \in SUBSET S, Fits(S) PROVE Fits(P)
  <1>1. IsFiniteSet(S)
    <2>1. IsFiniteSet(Reports)
      BY ReportingAssumption, FS_Interval DEF Reports
    <2> QED BY <2>1, FS_Subset
  <1>2. Cardinality(P) <= Cardinality(S) /\ Cardinality(P) \in Nat /\ Cardinality(S) \in Nat
    BY <1>1, FS_Subset, FS_CardinalityType
  <1>3. SizeOf \in [Reports -> Nat]
    BY ReportingAssumption DEF Reports
  <1>4. Total(SizeOf, P) <= Total(SizeOf, S) /\ Total(SizeOf, P) \in Nat /\ Total(SizeOf, S) \in Nat
    <2>1. IsFiniteSet(P) /\ P \in SUBSET Reports
      BY <1>1, FS_Subset
    <2>2. Total(SizeOf, P) <= Total(SizeOf, S)
      BY <1>1, <1>3, TotalOfPart
    <2>3. Total(SizeOf, P) \in Nat /\ Total(SizeOf, S) \in Nat
      BY <1>1, <1>3, <2>1, TotalIsNat
    <2> QED BY <2>2, <2>3
  <1>5. Cardinality(S) <= MaxItems /\ Total(SizeOf, S) <= MaxBytes
    BY DEF Fits, Total
  <1>6. Cardinality(P) <= MaxItems /\ Total(SizeOf, P) <= MaxBytes
    BY <1>2, <1>4, <1>5, ReportingAssumption
  <1> QED BY <1>6 DEF Fits, Total

\* An empty outbox is within the limits.
LEMMA NothingFits == Fits({})
  <1>1. Total(SizeOf, {}) = 0 /\ Cardinality({}) = 0
    BY TotalOfNone, FS_EmptySet
  <1> QED BY <1>1, ReportingAssumption DEF Fits, Total

\* Of some reports one was kept at the earliest time.
LEMMA EarliestIsThere ==
    ASSUME ReportTypes, NEW S \in SUBSET Reports, S # {}
    PROVE  \E r \in S : \A x \in S : stamp[r] <= stamp[x]
  <1> DEFINE Before(r) == {x \in S : stamp[x] < stamp[r]}
             C == {Before(r) : r \in S}
  <1>1. ASSUME NEW T \in C PROVE IsFiniteSet(T)
    <2>1. IsFiniteSet(Reports)
      BY ReportingAssumption, FS_Interval DEF Reports
    <2> QED BY <2>1, FS_Subset
  <1>2. PICK T \in C : \A U \in C : Cardinality(T) <= Cardinality(U)
    <2>1. C # {}
      OBVIOUS
    <2> HIDE DEF C
    <2> QED BY <1>1, <2>1, SmallestSet
  <1>3. PICK r \in S : T = Before(r)
    BY <1>2
  <1>4. \A x \in S : stamp[x] \in Int
    BY DEF ReportTypes
  <1>5. SUFFICES ASSUME NEW x \in S, stamp[x] < stamp[r] PROVE FALSE
    BY <1>4
  <1>6. Before(x) \subseteq T /\ x \in T /\ x \notin Before(x)
    BY <1>3, <1>4, <1>5
  <1>7. Cardinality(Before(x)) < Cardinality(T)
    <2>1. IsFiniteSet(T) /\ Before(x) # T
      BY <1>1, <1>6
    <2> HIDE DEF Before, C
    <2> QED BY <1>6, <2>1, FS_Subset, FS_CardinalityType
  <1>8. Cardinality(T) <= Cardinality(Before(x)) /\ Cardinality(T) \in Nat /\ Cardinality(Before(x)) \in Nat
    <2>1. Before(x) \in C
      OBVIOUS
    <2> HIDE DEF Before, C
    <2> QED BY <1>1, <1>2, <2>1, FS_CardinalityType
  <1> HIDE DEF Before, C
  <1> QED BY <1>7, <1>8

\* What enforceLimitsLocked leaves: the newest records, as many as fit.
Newest(S) == \A r \in S, q \in Readable \ S : stamp[q] < stamp[r]

LEMMA KeptFacts ==
    ASSUME ReportTypes, NEW K, K = Kept(Readable)
    PROVE  /\ K \subseteq Readable /\ Newest(K) /\ Fits(K)
           /\ \A T \in SUBSET Readable : Newest(T) /\ Fits(T) => T \subseteq K
           /\ Fits(Readable) => K = Readable
  <1> DEFINE Since(r) == {x \in Readable : stamp[x] >= stamp[r]}
  <1>1. K = {r \in Readable : Fits(Since(r))}
    BY DEF Kept
  <1>2. Readable \subseteq Reports /\ \A r \in Readable : stamp[r] \in Int /\ r \in Since(r)
    BY DEF Readable, ReportTypes
  <1>3. \A r \in Readable : Since(r) \in SUBSET Readable /\ Since(r) \in SUBSET Reports
    BY <1>2
  <1>4. ASSUME NEW r \in K, NEW q \in Readable, stamp[q] >= stamp[r] PROVE q \in K
    <2>1. Since(q) \in SUBSET Since(r)
      BY <1>1, <1>2, <1>4
    <2>2. Fits(Since(q))
      <3> HIDE DEF Since
      <3> QED BY <1>1, <1>3, <2>1, FitsPart
    <2> QED BY <1>1, <2>2
  <1>5. Newest(K)
    BY <1>1, <1>2, <1>4 DEF Newest
  <1>6. Fits(K)
    <2>1. CASE K = {}
      BY <2>1, NothingFits
    <2>2. CASE K # {}
      <3>1. PICK r \in K : \A x \in K : stamp[r] <= stamp[x]
        <4>1. K \in SUBSET Reports
          BY <1>1, <1>2
        <4> QED BY <2>2, <4>1, EarliestIsThere
      <3>2. K = Since(r)
        BY <1>1, <1>2, <1>4, <3>1
      <3> QED BY <1>1, <3>2
    <2> QED BY <2>1, <2>2
  <1>7. ASSUME NEW T \in SUBSET Readable, Newest(T), Fits(T) PROVE T \subseteq K
    <2> SUFFICES ASSUME NEW r \in T PROVE Fits(Since(r))
      BY <1>1
    <2>1. Since(r) \in SUBSET T
      BY <1>2, <1>7 DEF Newest
    <2>2. T \in SUBSET Reports
      BY <1>2
    <2> HIDE DEF Since
    <2> QED BY <1>7, <2>1, <2>2, FitsPart
  <1>8. Fits(Readable) => K = Readable
    BY <1>1, <1>7 DEF Newest
  <1> QED BY <1>1, <1>5, <1>6, <1>7, <1>8

-----------------------------------------------------------------------------
(* Refinement of Delivery.                                                  *)

\* The types the outbox rests on; what is not collected yet has left no trace.
PlanTypes ==
    /\ meant \in [Reports -> Configs \cup {<<>>}]
    /\ \A r \in Reports : IF r <= last THEN meant[r] \in Configs
                                       ELSE file[r] = {} /\ got[r] = {}
    /\ \A r \in Reports : file[r] \subseteq 0 .. Len(meant[r])
    /\ \A p \in send.todo : p[1] <= last /\ p[2] \in 0 .. Len(meant[p[1]])
    /\ damaged \subseteq Reports

\* Names follow the order of the collections until the clock is set back.
StampInv == ~clockBack => \A r \in Reports : stamp[r] = r

\* A record lacks only destinations that have accepted its report.
MissingInv ==
    \A r \in Reports : file[r] # {} =>
        \A d \in 0 .. Len(meant[r]) : d \in file[r] \/ d \in AcceptedAt(r)

\* What is about to be crossed out was accepted there.
AnsweredInv ==
    send.pc = "ack" => \A p \in send.todo : First(p) =>
        p[2] <= Len(send.conf) /\ Endpoint(send.conf, p[2]) \in got[p[1]]

OutboxInv == AckInv /\ PlanTypes /\ StampInv /\ MissingInv /\ AnsweredInv

\* Webhooks keep their place from one configuration to the next.
PlacesAreKept ==
    \A c, e \in Configs : \A i \in DOMAIN c \cap DOMAIN e : c[i] = e[i]

\* What the two properties say of a step.
AsDelivery == [Outbox!Next]_(Outbox!deliveryVars)
Leaves ==
    /\ \A r \in Reports : file[r] # {} /\ file'[r] = {} =>
          \/ r \in damaged
          \/ ~Fits(Readable)
          \/ {"panel"} \union {meant[r][i] : i \in DOMAIN meant[r]} \subseteq got[r]
    /\ send.pc = "put" /\ ~clockBack =>
          \A r, q \in Readable : file'[r] = {} /\ file'[q] # {} /\ file'[q] = file[q] => r < q

LEMMA OutboxInit == ReportingInit => OutboxInv /\ Outbox!Init
  <1> SUFFICES ASSUME ReportingInit PROVE OutboxInv /\ Outbox!Init
    OBVIOUS
  <1>0. AckInv
    BY AckInit
  <1>1. /\ file = [r \in Reports |-> {}] /\ got = [r \in Reports |-> {}] /\ meant = [r \in Reports |-> <<>>]
        /\ stamp = [r \in Reports |-> r] /\ last = 0 /\ damaged = {} /\ send.todo = {} /\ send.pc = "idle"
    BY DEF ReportingInit, NoSend
  <1>2. \A r \in Reports : ~(r <= last)
    BY <1>1, ReportingAssumption DEF Reports
  <1>3. PlanTypes
    BY <1>1, <1>2 DEF PlanTypes
  <1>4. StampInv /\ MissingInv /\ AnsweredInv
    BY <1>1 DEF StampInv, MissingInv, AnsweredInv
  <1>5. 1 .. last = {}
    BY <1>1
  <1>6. stamp \in [Reports -> Reports]
    BY <1>1
  <1>7. \A r \in Reports : AcceptedAt(r) = {}
    BY <1>1 DEF AcceptedAt
  <1> QED BY <1>0, <1>1, <1>3, <1>4, <1>5, <1>6, <1>7 DEF OutboxInv, Outbox!Init

\* A step that leaves the records and the answers alone is no step of Delivery.
LEMMA OutboxRests ==
    ASSUME UNCHANGED <<file, stamp, damaged, last, got, meant>> PROVE AsDelivery /\ Leaves
  <1>1. UNCHANGED Outbox!deliveryVars
    BY DEF Outbox!deliveryVars, AcceptedAt
  <1>2. Leaves
    BY DEF Leaves, Readable
  <1> QED BY <1>1, <1>2 DEF AsDelivery

\* The same, for the invariant, when the call has no more to do than before and
\* is not about to cross out anything new.
LEMMA OutboxIdles ==
    ASSUME OutboxInv, AckInv', UNCHANGED <<file, stamp, last, got, meant>>,
           damaged' \subseteq Reports, clockBack => clockBack', send'.todo \subseteq send.todo,
           send' = send \/ send'.pc # "ack"
    PROVE  OutboxInv'
  <1>1. PlanTypes'
    BY DEF OutboxInv, PlanTypes
  <1>2. StampInv' /\ MissingInv'
    BY DEF OutboxInv, StampInv, MissingInv, AcceptedAt
  <1>3. AnsweredInv'
    BY DEF OutboxInv, AnsweredInv, First
  <1> QED BY <1>1, <1>2, <1>3 DEF OutboxInv

\* Whole records go, by the limits or into the quarantine.
LEMMA RecordsGo ==
    ASSUME OutboxInv, AckInv', NEW K \in SUBSET Readable, file' = AfterList(K),
           UNCHANGED <<stamp, damaged, clockBack, last, got, meant>>,
           send'.pc = "ack" => send' = send,
           \A p \in send'.todo : p \in send.todo \/ p[2] \in file[p[1]]
    PROVE  OutboxInv' /\ file' = Outbox!Leaving(K)
  <1>0. ReportTypes /\ ReportTypes' /\ Readable \subseteq Reports
    BY DEF OutboxInv, AckInv, Readable
  <1>1. \A r \in Reports : file'[r] = IF r \in K THEN file[r] ELSE {}
    BY <1>0, AfterListFacts
  <1>2. file' = Outbox!Leaving(K)
    BY DEF AfterList, Outbox!Leaving
  <1>3. \A p \in send'.todo : p[1] \in Reports
    BY <1>0 DEF ReportTypes, SendTypes
  <1>4. \A p \in send'.todo : p[1] <= last /\ p[2] \in 0 .. Len(meant[p[1]])
    BY <1>3 DEF OutboxInv, PlanTypes
  <1>5. PlanTypes'
    BY <1>1, <1>4 DEF OutboxInv, PlanTypes
  <1>6. StampInv' /\ MissingInv'
    BY <1>1 DEF OutboxInv, StampInv, MissingInv, AcceptedAt
  <1>7. AnsweredInv'
    BY DEF OutboxInv, AnsweredInv, First
  <1> QED BY <1>2, <1>5, <1>6, <1>7 DEF OutboxInv

\* A collection adds its report, for every destination of its configuration.
LEMMA CollectDelivers ==
    ASSUME OutboxInv, AckInv', Collect PROVE OutboxInv' /\ AsDelivery /\ Leaves
  <1> DEFINE n == last + 1
             time == IF clockBack THEN stamp[n] - MaxReport ELSE stamp[n]
  <1>0. /\ ReportTypes /\ ReportTypes' /\ n \in Reports /\ conf \in Configs /\ Len(conf) \in Nat
        /\ last \in Nat
    BY ReportingAssumption, ConfigFacts DEF OutboxInv, AckInv, ReportTypes, Collect, Reports
  <1>1. /\ last' = n /\ file' = [file EXCEPT ![n] = 0 .. Len(conf)]
        /\ meant' = [meant EXCEPT ![n] = conf] /\ stamp' = [stamp EXCEPT ![n] = time]
        /\ send'.todo = {} /\ send'.pc = "put"
        /\ UNCHANGED <<damaged, conf, clockBack, got>>
    BY DEF Collect
  <1>2. ~(n <= last) /\ \A r \in Reports : r <= n <=> r <= last \/ r = n
    BY <1>0 DEF Reports
  <1>3. /\ \A r \in Reports : file'[r] = IF r = n THEN 0 .. Len(conf) ELSE file[r]
        /\ \A r \in Reports : meant'[r] = IF r = n THEN conf ELSE meant[r]
        /\ \A r \in Reports : r # n => stamp'[r] = stamp[r]
        /\ ~clockBack => stamp'[n] = stamp[n]
        /\ meant' \in [Reports -> Configs \cup {<<>>}]
    BY <1>0, <1>1 DEF OutboxInv, PlanTypes, ReportTypes
  <1>4. file[n] = {} /\ got[n] = {}
    BY <1>0, <1>2 DEF OutboxInv, PlanTypes
  <1> HIDE DEF n, time
  <1>5. PlanTypes'
    BY <1>0, <1>1, <1>2, <1>3, <1>4 DEF OutboxInv, PlanTypes
  <1>6. StampInv'
    BY <1>1, <1>3 DEF OutboxInv, StampInv
  <1>7. \A r \in Reports : AcceptedAt(r)' = AcceptedAt(r)
    BY <1>1, <1>3, <1>4 DEF AcceptedAt
  <1>8. MissingInv'
    BY <1>3, <1>7 DEF OutboxInv, MissingInv
  <1>9. AnsweredInv'
    BY <1>1 DEF AnsweredInv
  <1>10. Outbox!Put(n, 0 .. Len(conf), stamp'[n])
    <2>1. n \notin 1 .. last /\ (1 .. last)' = (1 .. last) \cup {n}
      BY <1>0, <1>1 DEF n
    <2>2. stamp' = [stamp EXCEPT ![n] = stamp'[n]]
      BY <1>0, <1>1 DEF ReportTypes
    <2> QED BY <1>1, <1>7, <2>1, <2>2 DEF Outbox!Put
  <1>11. Outbox!Next
    BY <1>0, <1>10 DEF Outbox!Next
  <1>12. Leaves
    BY <1>0, <1>3, <1>4, <1>1, <1>2 DEF Leaves, Collect
  <1> QED BY <1>5, <1>6, <1>8, <1>9, <1>11, <1>12 DEF OutboxInv, AsDelivery

\* The limits take the oldest records, and only as many as they must.
LEMMA EnforceDelivers ==
    ASSUME OutboxInv, AckInv', Enforce PROVE OutboxInv' /\ AsDelivery /\ Leaves
  <1> DEFINE K == Kept(Readable)
             todo == UNION {{<<r, d>> : d \in file[r]} : r \in K}
  <1>0. ReportTypes /\ Readable \subseteq Reports
    BY DEF OutboxInv, AckInv, Readable
  <1>1. /\ K \subseteq Readable /\ Newest(K) /\ Fits(K)
        /\ \A T \in SUBSET Readable : Newest(T) /\ Fits(T) => T \subseteq K
        /\ Fits(Readable) => K = Readable
    BY <1>0, KeptFacts
  <1>2. /\ file' = AfterList(K) /\ send.pc = "put"
        /\ UNCHANGED <<stamp, damaged, conf, clockBack, last, got, meant>>
    BY DEF Enforce
  <1>3. send'.pc # "ack" /\ send'.todo \in {todo, {}}
    <2>1. send' \in {[send EXCEPT !.pc = "flush", !.todo = todo], NoSend}
      BY DEF Enforce
    <2> HIDE DEF todo
    <2>2. CASE send' = NoSend
      BY <2>2 DEF NoSend
    <2>3. CASE send' = [send EXCEPT !.pc = "flush", !.todo = todo]
      BY <1>0, <2>3 DEF ReportTypes, SendTypes
    <2> QED BY <2>1, <2>2, <2>3
  <1>4. \A p \in send'.todo : p[2] \in file[p[1]]
    BY <1>3
  <1> HIDE DEF K, todo
  <1>5. OutboxInv' /\ file' = Outbox!Leaving(K)
    BY <1>1, <1>2, <1>3, <1>4, RecordsGo
  <1>6. Outbox!Limit
    <2>1. Readable = Outbox!Readable
      BY DEF Readable, Outbox!Readable
    <2>2. \A T : Outbox!Newest(T) <=> Newest(T)
      BY <2>1 DEF Newest, Outbox!Newest
    <2>3. K \in {S \in SUBSET Reports : Fits(S)}
      BY <1>0, <1>1
    <2>4. (1 .. last)' = 1 .. last /\ [r \in Reports |-> AcceptedAt(r)]' = [r \in Reports |-> AcceptedAt(r)]
      BY <1>2 DEF AcceptedAt
    <2> QED BY <1>1, <1>2, <1>5, <2>1, <2>2, <2>3, <2>4 DEF Outbox!Limit
  <1>7. \A r \in Reports : file'[r] = IF r \in K THEN file[r] ELSE {}
    BY <1>0, <1>2, AfterListFacts
  <1>8. Leaves
    <2>1. ASSUME NEW r \in Reports, file[r] # {}, file'[r] = {} PROVE r \in damaged \/ ~Fits(Readable)
      BY <1>1, <1>7, <2>1 DEF Readable
    <2>2. ASSUME ~clockBack, NEW r \in Readable, NEW q \in Readable, file'[r] = {}, file'[q] # {} PROVE r < q
      <3>1. q \in K /\ r \in Readable \ K
        BY <1>0, <1>7, <2>2 DEF Readable
      <3>2. stamp[r] < stamp[q]
        BY <1>1, <3>1 DEF Newest
      <3> QED BY <1>0, <2>2, <3>2 DEF OutboxInv, StampInv
    <2> QED BY <2>1, <2>2 DEF Leaves
  <1>9. Outbox!Next
    BY <1>6 DEF Outbox!Next
  <1> QED BY <1>5, <1>8, <1>9 DEF AsDelivery

\* A list moves only what cannot be read.
LEMMA ListDelivers ==
    ASSUME OutboxInv, AckInv', Check \/ Depth PROVE OutboxInv' /\ AsDelivery /\ Leaves
  <1>0. ReportTypes /\ Readable \subseteq Reports /\ send.pc # "put"
    BY DEF OutboxInv, AckInv, Readable, Check, Depth
  <1>1. /\ file' = AfterList(Readable) /\ send' \in {send, NoSend}
        /\ UNCHANGED <<stamp, damaged, conf, clockBack, last, got, meant>>
    BY DEF Check, Depth
  <1>2. (send'.pc = "ack" => send' = send) /\ \A p \in send'.todo : p \in send.todo
    BY <1>1 DEF NoSend
  <1>3. OutboxInv' /\ file' = Outbox!Leaving(Readable)
    BY <1>1, <1>2, RecordsGo
  <1>4. Outbox!Quarantine
    <2>1. Readable = Outbox!Readable
      BY DEF Readable, Outbox!Readable
    <2>2. (1 .. last)' = 1 .. last /\ [r \in Reports |-> AcceptedAt(r)]' = [r \in Reports |-> AcceptedAt(r)]
      BY <1>1 DEF AcceptedAt
    <2> QED BY <1>1, <1>3, <2>1, <2>2 DEF Outbox!Quarantine
  <1>5. \A r \in Reports : file'[r] = IF r \in Readable THEN file[r] ELSE {}
    BY <1>0, <1>1, AfterListFacts
  <1>6. Leaves
    BY <1>0, <1>5 DEF Leaves, Readable
  <1>7. Outbox!Next
    BY <1>4 DEF Outbox!Next
  <1> QED BY <1>3, <1>6, <1>7 DEF AsDelivery

\* A destination accepts a report at the endpoints of its plan.
LEMMA SendDelivers ==
    ASSUME OutboxInv, AckInv', NEW p \in Reports \X Destinations, Send(p)
    PROVE  OutboxInv' /\ AsDelivery /\ Leaves
  <1> DEFINE e == Endpoint(send.conf, p[2])
             r == p[1]
  <1>0. /\ ReportTypes /\ ReportTypes' /\ send.pc = "flush" /\ p \in send.todo /\ First(p) /\ r \in Reports
        /\ p[2] <= Len(send.conf) /\ UNCHANGED <<file, stamp, damaged, conf, clockBack, last, meant>>
    BY DEF OutboxInv, AckInv, Send, Known, outboxVars
  <1>1. /\ send'.todo \subseteq send.todo
        /\ send'.pc = "ack" => send'.todo = send.todo /\ send'.conf = send.conf
        /\ \/ got' = [got EXCEPT ![r] = @ \cup {e}]
           \/ got' = got /\ send'.pc # "ack"
    <2>1. PICK o \in (IF p[2] = 0 THEN PanelSends ELSE HookSends) :
             /\ IF o \in {"ok", "lost"} THEN Accept(r, e) ELSE UNCHANGED got
             /\ send' = CASE o = "ok" -> [send EXCEPT !.pc = "ack"]
                          [] o = "hang" -> [AfterFailure(p) EXCEPT !.left = @ - 1]
                          [] OTHER -> AfterFailure(p)
      BY DEF Send
    <2> HIDE DEF e, r
    <2>2. CASE o = "ok"
      BY <1>0, <2>1, <2>2 DEF Accept, ReportTypes, SendTypes
    <2>3. CASE o # "ok"
      <3>1. Done(p).pc = "flush" /\ Done(p).todo \subseteq send.todo
        BY <1>0 DEF Done, ReportTypes, SendTypes
      <3>2. send' \in {Done(p), [Done(p) EXCEPT !.left = Done(p).left - 1]}
        BY <2>1, <2>3 DEF AfterFailure
      <3>3. send'.pc = "flush" /\ send'.todo \subseteq send.todo
        BY <1>0, <3>1, <3>2 DEF Done, ReportTypes, SendTypes
      <3> QED BY <2>1, <3>3 DEF Accept
    <2> QED BY <2>2, <2>3
  <1>2. r <= last /\ meant[r] \in Configs
    BY <1>0 DEF OutboxInv, PlanTypes
  <1> HIDE DEF e, r
  <1>3. CASE got' = got /\ send'.pc # "ack"
    BY <1>0, <1>1, <1>3, OutboxIdles, OutboxRests DEF OutboxInv, PlanTypes
  <1>4. CASE got' = [got EXCEPT ![r] = @ \cup {e}]
    <2>1. \A q \in Reports : got'[q] = IF q = r THEN got[q] \cup {e} ELSE got[q]
      BY <1>0, <1>4 DEF ReportTypes
    <2>2. PlanTypes'
      BY <1>0, <1>1, <1>2, <2>1 DEF OutboxInv, PlanTypes
    <2>3. StampInv'
      BY <1>0 DEF OutboxInv, StampInv
    <2>4. \A q \in Reports : AcceptedAt(q) \subseteq AcceptedAt(q)'
      BY <1>0, <2>1 DEF AcceptedAt
    <2>5. MissingInv'
      BY <1>0, <2>4 DEF OutboxInv, MissingInv
    <2>6. AnsweredInv'
      <3> SUFFICES ASSUME send'.pc = "ack", NEW q \in send'.todo, First(q)'
                   PROVE  q[2] <= Len(send'.conf) /\ Endpoint(send'.conf, q[2]) \in got'[q[1]]
        BY DEF AnsweredInv
      <3>1. q \in send.todo /\ First(q) /\ send'.conf = send.conf
        BY <1>0, <1>1 DEF First
      <3>2. q = p
        BY <1>0, <3>1, FirstIsOne
      <3> QED BY <1>0, <2>1, <3>1, <3>2 DEF e, r
    <2> DEFINE where == {d \in 0 .. Len(meant[r]) : Endpoint(meant[r], d) = e}
    <2>7. AcceptedAt(r)' = AcceptedAt(r) \cup where /\ \A q \in Reports : q # r => AcceptedAt(q)' = AcceptedAt(q)
      BY <1>0, <2>1 DEF AcceptedAt
    <2>8. where \in SUBSET UNION {0 .. Len(c) : c \in Configs}
      BY <1>2
    <2>9. r \in 1 .. last /\ (1 .. last)' = 1 .. last
      BY <1>0, <1>2 DEF Reports, ReportTypes
    <2> HIDE DEF where
    <2>10. Outbox!Accept(r, where)
      BY <1>0, <2>7, <2>9 DEF Outbox!Accept
    <2>11. Outbox!Next
      BY <1>0, <2>8, <2>10 DEF Outbox!Next
    <2>12. Leaves
      BY <1>0 DEF Leaves, Readable
    <2> QED BY <2>2, <2>3, <2>5, <2>6, <2>11, <2>12 DEF OutboxInv, AsDelivery
  <1> QED BY <1>1, <1>3, <1>4

\* Ack crosses out a destination that has accepted the report.
LEMMA AckDelivers ==
    ASSUME PlacesAreKept, OutboxInv, AckInv', NEW p \in Reports \X Destinations, Ack(p)
    PROVE  OutboxInv' /\ AsDelivery /\ Leaves
  <1> DEFINE r == p[1]
             d == p[2]
  <1>0. /\ ReportTypes /\ ReportTypes' /\ send.pc = "ack" /\ p \in send.todo /\ First(p) /\ r \in Reports
        /\ UNCHANGED <<stamp, damaged, conf, clockBack, last, got, meant>>
    BY DEF OutboxInv, AckInv, Ack
  <1>1. \/ r \in Readable /\ file' = [file EXCEPT ![r] = file[r] \ {d}]
        \/ file' = file
    BY DEF Ack, CrossOut
  <1>2. send'.pc = "flush" /\ send'.todo \subseteq send.todo
    <2>1. send' \in {[Done(p) EXCEPT !.pc = "flush"], [send EXCEPT !.pc = "flush", !.todo = {}]}
      BY DEF Ack
    <2> QED BY <1>0, <2>1 DEF Done, ReportTypes, SendTypes
  <1>3. d \in AcceptedAt(r) /\ d \in 0 .. Len(meant[r]) /\ meant[r] \in Configs
    <2>1. r <= last /\ d \in 0 .. Len(meant[r]) /\ meant[r] \in Configs
      BY <1>0 DEF OutboxInv, PlanTypes
    <2>2. d <= Len(send.conf) /\ Endpoint(send.conf, d) \in got[r] /\ send.conf \in Configs \cup {<<>>}
      BY <1>0 DEF OutboxInv, AnsweredInv, ReportTypes, SendTypes
    <2>3. Endpoint(send.conf, d) = Endpoint(meant[r], d)
      <3>1. CASE d = 0
        BY <3>1 DEF Endpoint
      <3>2. CASE d # 0
        <4>1. d \in DOMAIN send.conf /\ d \in DOMAIN meant[r]
          BY <2>1, <2>2, <3>2, ConfigFacts
        <4>2. send.conf \in Configs
          BY <2>2, <4>1
        <4>3. send.conf[d] = meant[r][d]
          BY <2>1, <4>1, <4>2 DEF PlacesAreKept
        <4> QED BY <3>2, <4>3 DEF Endpoint
      <3> QED BY <3>1, <3>2
    <2> QED BY <2>1, <2>2, <2>3 DEF AcceptedAt
  <1> HIDE DEF r, d
  <1>4. CASE file' = file
    BY <1>0, <1>2, <1>4, OutboxIdles, OutboxRests DEF OutboxInv, PlanTypes
  <1>5. CASE r \in Readable /\ file' = [file EXCEPT ![r] = file[r] \ {d}]
    <2>1. \A q \in Reports : file'[q] = IF q = r THEN file[q] \ {d} ELSE file[q]
      BY <1>0, <1>5 DEF ReportTypes
    <2>2. \A q \in Reports : AcceptedAt(q)' = AcceptedAt(q)
      BY <1>0 DEF AcceptedAt
    <2>3. PlanTypes'
      BY <1>0, <1>2, <2>1 DEF OutboxInv, PlanTypes
    <2>4. StampInv'
      BY <1>0 DEF OutboxInv, StampInv
    <2>5. MissingInv'
      BY <1>0, <1>3, <2>1, <2>2 DEF OutboxInv, MissingInv
    <2>6. AnsweredInv'
      BY <1>2 DEF AnsweredInv
    <2>7. Outbox!CrossOut(r, d)
      BY <1>0, <1>3, <1>5, <2>2 DEF Outbox!CrossOut, Outbox!Readable, Readable
    <2>8. Outbox!Next
      <3>1. d \in UNION {0 .. Len(c) : c \in Configs}
        BY <1>3
      <3> QED BY <1>0, <2>7, <3>1 DEF Outbox!Next
    <2>9. Leaves
      <3>1. ASSUME NEW q \in Reports, file[q] # {}, file'[q] = {}
            PROVE  {"panel"} \union {meant[q][i] : i \in DOMAIN meant[q]} \subseteq got[q]
        <4>1. q = r /\ file[q] \subseteq {d}
          BY <2>1, <3>1
        <4>2. \A x \in 0 .. Len(meant[q]) : Endpoint(meant[q], x) \in got[q]
          BY <1>0, <1>3, <3>1, <4>1 DEF OutboxInv, MissingInv, AcceptedAt
        <4>3. DOMAIN meant[q] = 1 .. Len(meant[q]) /\ Len(meant[q]) \in Nat
          BY <1>3, <4>1, ConfigFacts
        <4>4. Endpoint(meant[q], 0) = "panel" /\ \A i \in 1 .. Len(meant[q]) : Endpoint(meant[q], i) = meant[q][i]
          BY <4>3 DEF Endpoint
        <4> QED BY <4>2, <4>3, <4>4
      <3> QED BY <1>0, <3>1 DEF Leaves
    <2> QED BY <2>3, <2>4, <2>5, <2>6, <2>8, <2>9 DEF OutboxInv, AsDelivery
  <1> QED BY <1>1, <1>4, <1>5

\* A record that is damaged stays where it is until the next list.
LEMMA DamageDelivers ==
    ASSUME OutboxInv, AckInv', NEW r \in Reports, Damage(r)
    PROVE  OutboxInv' /\ AsDelivery /\ Leaves
  <1>1. damaged' = damaged \cup {r} /\ UNCHANGED <<file, stamp, conf, clockBack, last, send, got, meant>>
    BY DEF Damage
  <1>2. damaged' \subseteq Reports
    BY <1>1 DEF OutboxInv, PlanTypes
  <1>3. OutboxInv'
    BY <1>1, <1>2, OutboxIdles
  <1>4. Outbox!Damage(r)
    BY <1>1 DEF Outbox!Damage, AcceptedAt
  <1>5. Outbox!Next
    BY <1>4 DEF Outbox!Next
  <1>6. Leaves
    BY <1>1 DEF Leaves, Readable
  <1> QED BY <1>3, <1>5, <1>6 DEF AsDelivery

\* Every step of the reporting is one of Delivery, or none.
LEMMA OutboxStep ==
    ASSUME PlacesAreKept, OutboxInv, [ReportingNext]_reportingVars
    PROVE  OutboxInv' /\ AsDelivery /\ Leaves
  <1>0. AckInv'
    BY AckStep DEF OutboxInv
  <1>1. ReportTypes /\ damaged \subseteq Reports
    BY DEF OutboxInv, AckInv, PlanTypes
  <1>2. CASE UNCHANGED reportingVars
    BY <1>0, <1>1, <1>2, OutboxIdles, OutboxRests DEF reportingVars, outboxVars
  <1>3. CASE CollectFails \/ Reload \/ ClockStep \/ Crash \/ Timeout
    <2>1. UNCHANGED <<file, stamp, damaged, last, got, meant>>
      BY <1>3 DEF CollectFails, Reload, ClockStep, Crash, Timeout, outboxVars
    <2>2. clockBack => clockBack'
      <3>1. CASE ClockStep
        BY <3>1 DEF ClockStep
      <3>2. CASE CollectFails \/ Reload \/ Crash \/ Timeout
        BY <3>2 DEF CollectFails, Reload, Crash, Timeout
      <3> QED BY <1>3, <3>1, <3>2
    <2>3. send'.todo \subseteq send.todo /\ (send' = send \/ send'.pc # "ack")
      <3>1. CASE CollectFails \/ Reload \/ ClockStep
        BY <3>1 DEF CollectFails, Reload, ClockStep
      <3>2. CASE Crash
        BY <3>2 DEF Crash, NoSend
      <3>3. CASE Timeout
        BY <1>1, <3>3 DEF Timeout, ReportTypes, SendTypes
      <3> QED BY <1>3, <3>1, <3>2, <3>3
    <2> QED BY <1>0, <1>1, <2>1, <2>2, <2>3, OutboxIdles, OutboxRests
  <1>4. ASSUME NEW p \in Reports \X Destinations, SkipUnknown(p) PROVE OutboxInv' /\ AsDelivery /\ Leaves
    <2>1. /\ UNCHANGED <<file, stamp, damaged, last, got, meant, clockBack>> /\ send' = Done(p) /\ send.pc = "flush"
      BY <1>4 DEF SkipUnknown, outboxVars
    <2>2. send'.todo \subseteq send.todo /\ send'.pc # "ack"
      BY <1>1, <2>1 DEF ReportTypes, SendTypes, Done
    <2> QED BY <1>0, <1>1, <2>1, <2>2, OutboxIdles, OutboxRests
  <1> QED BY <1>0, <1>2, <1>3, <1>4, CollectDelivers, EnforceDelivers, ListDelivers, SendDelivers, AckDelivers,
             DamageDelivers DEF ReportingNext

\* Outbox, reporter and sink deliver what Delivery promises, for every limit of the
\* outbox, all sizes of reports and every set of configurations in which a webhook
\* keeps its place, through crashes, full disks, damaged records, lost answers,
\* timeouts, reloads and steps of the clock.
THEOREM ReportingImplementsDelivery ==
    ASSUME PlacesAreKept PROVE ReportingSpec => ImplementsDelivery
  <1>1. ReportingInit => Outbox!Init /\ OutboxInv
    BY OutboxInit
  <1>2. OutboxInv /\ [ReportingNext]_reportingVars => OutboxInv'
    BY OutboxStep
  <1>3. OutboxInv /\ [ReportingNext]_reportingVars => [Outbox!Next]_(Outbox!deliveryVars)
    BY OutboxStep DEF AsDelivery
  <1> QED BY <1>1, <1>2, <1>3, PTL DEF ReportingSpec, ImplementsDelivery, Outbox!Spec

\* "delete item after all ACK" and "at the limit, the oldest report is removed",
\* under the same premise: a report leaves the outbox when all it was meant for have
\* it, when it cannot be read, or when the limits are exceeded, and then before
\* every newer one as long as the clock is not set back.
THEOREM ReportsLeaveDelivered ==
    ASSUME PlacesAreKept PROVE ReportingSpec => LeavesOnlyDelivered
  <1> DEFINE One == \A r \in Reports : file[r] # {} /\ file'[r] = {} =>
                      \/ r \in damaged
                      \/ ~Fits(Readable)
                      \/ {"panel"} \union {meant[r][i] : i \in DOMAIN meant[r]} \subseteq got[r]
             Two == send.pc = "put" /\ ~clockBack =>
                      \A r, q \in Readable : file'[r] = {} /\ file'[q] # {} /\ file'[q] = file[q] => r < q
  <1>1. OutboxInv /\ [ReportingNext]_reportingVars => OutboxInv'
    BY OutboxStep
  <1>2. OutboxInv /\ [ReportingNext]_reportingVars => [One]_reportingVars /\ [Two]_reportingVars
    BY OutboxStep DEF Leaves
  <1>3. ReportingSpec => [][One]_reportingVars /\ [][Two]_reportingVars
    BY <1>1, <1>2, OutboxInit, PTL DEF ReportingSpec
  <1> QED BY <1>3, PTL DEF LeavesOnlyDelivered

-----------------------------------------------------------------------------
(* The types of Reporting.                                                  *)

\* Beside what AckInv holds of them.
RestReportTypes ==
    /\ file \in [Reports -> SUBSET Destinations]
    /\ damaged \subseteq Reports
    /\ clockBack \in BOOLEAN
    /\ send.pc # "idle" => send.conf \in Configs
    /\ send.todo \subseteq Reports \X Destinations
    /\ send.left \in 0..Patience
    /\ lastReport \in {"", "collect_failed", "panel_not_acknowledged", "report_acknowledged"}
    /\ got \in [Reports -> SUBSET Endpoints]
    /\ meant \in [Reports -> Configs \union {<<>>}]

\* The destinations of a configuration stand for endpoints.
LEMMA DestinationFacts ==
    ASSUME NEW c \in Configs
    PROVE  /\ 0 .. Len(c) \subseteq Destinations
           /\ \A d \in Destinations : d <= Len(c) => Endpoint(c, d) \in Endpoints
  <1>1. Len(c) \in Nat /\ DOMAIN c = 1 .. Len(c)
    BY ConfigFacts
  <1>2. 0 .. Len(c) \subseteq Destinations
    BY DEF Destinations
  <1>3. ASSUME NEW d \in Destinations, d <= Len(c) PROVE Endpoint(c, d) \in Endpoints
    <2>1. CASE d = 0
      BY <2>1 DEF Endpoint, Endpoints
    <2>2. CASE d # 0
      <3>1. PICK e \in Configs : d \in 0 .. Len(e)
        BY DEF Destinations
      <3>2. d \in DOMAIN c
        BY <1>1, <1>3, <2>2, <3>1
      <3>3. c[d] \in {c[i] : i \in DOMAIN c}
        BY <3>2
      <3> QED BY <2>2, <3>3 DEF Endpoint, Endpoints
    <2> QED BY <2>1, <2>2
  <1> QED BY <1>2, <1>3

\* No call under way keeps the types of a call.
LEMMA IdleTypes ==
    ASSUME send' = NoSend
    PROVE  /\ send'.pc = "idle" /\ send'.todo \subseteq Reports \X Destinations /\ send'.left \in 0..Patience
  BY ReportingAssumption DEF NoSend

LEMMA ReportTypesStep ==
    ASSUME ReportTypes, RestReportTypes, [ReportingNext]_reportingVars PROVE RestReportTypes'
  <1>0. send \in SendTypes /\ conf \in Configs /\ Patience \in Nat /\ Patience \in 0..Patience
    BY ReportingAssumption DEF ReportTypes
  <1>1. CASE Collect
    <2> DEFINE n == last + 1
    <2>1. n \in Reports
      BY <1>1, ReportingAssumption DEF Collect, ReportTypes, Reports
    <2>2. /\ file' = [file EXCEPT ![n] = 0..Len(conf)] /\ meant' = [meant EXCEPT ![n] = conf]
          /\ send'.conf = conf /\ send'.todo = {} /\ send'.left = Patience
          /\ UNCHANGED <<damaged, clockBack, lastReport, got>>
      BY <1>1 DEF Collect
    <2>3. 0..Len(conf) \subseteq Destinations
      BY <1>0, DestinationFacts
    <2> HIDE DEF n
    <2>4. file' \in [Reports -> SUBSET Destinations] /\ meant' \in [Reports -> Configs \union {<<>>}]
      BY <1>0, <2>1, <2>2, <2>3 DEF RestReportTypes
    <2>5. send'.todo \subseteq Reports \X Destinations /\ send'.left \in 0..Patience /\ send'.conf \in Configs
      BY <1>0, <2>2
    <2> QED BY <2>2, <2>4, <2>5 DEF RestReportTypes
  <1>2. CASE CollectFails \/ Reload \/ ClockStep \/ UNCHANGED reportingVars \/ \E r \in Reports : Damage(r)
    BY <1>2 DEF CollectFails, Reload, ClockStep, Damage, reportingVars, outboxVars, RestReportTypes
  <1>3. CASE Crash
    BY <1>3, IdleTypes DEF Crash, outboxVars, RestReportTypes
  <1>4. \A kept : AfterList(kept) \in [Reports -> SUBSET Destinations]
    BY DEF AfterList, RestReportTypes
  <1>5. CASE Enforce
    <2> DEFINE kept == Kept(Readable)
               all == UNION {{<<r, d>> : d \in file[r]} : r \in kept}
    <2>1. kept \subseteq Reports
      BY DEF Kept, Readable
    <2>2. /\ file' = AfterList(kept) /\ UNCHANGED <<damaged, clockBack, got, meant>> /\ send.pc = "put"
          /\ \/ send' = [send EXCEPT !.pc = "flush", !.todo = all] /\ lastReport' = lastReport
             \/ send' = NoSend /\ lastReport' = "panel_not_acknowledged"
      BY <1>5 DEF Enforce
    <2>3. all \subseteq Reports \X Destinations
      <3>1. ASSUME NEW r \in kept, NEW d \in file[r] PROVE <<r, d>> \in Reports \X Destinations
        BY <2>1, <3>1 DEF RestReportTypes
      <3> HIDE DEF kept
      <3> QED BY <3>1
    <2> HIDE DEF kept, all
    <2>4. CASE send' = NoSend
      BY <1>4, <2>2, <2>4, IdleTypes DEF RestReportTypes
    <2>5. CASE send' = [send EXCEPT !.pc = "flush", !.todo = all]
      BY <1>0, <1>4, <2>2, <2>3, <2>5 DEF RestReportTypes, SendTypes
    <2> QED BY <2>2, <2>4, <2>5
  <1>6. CASE Timeout
    BY <1>0, <1>6 DEF Timeout, outboxVars, RestReportTypes, SendTypes
  <1>7. CASE Check
    <2>1. /\ file' = AfterList(Readable) /\ send' = NoSend /\ UNCHANGED <<damaged, clockBack, got, meant>>
          /\ lastReport' \in {"panel_not_acknowledged", "report_acknowledged"}
      BY <1>7 DEF Check
    <2> QED BY <1>4, <2>1, IdleTypes DEF RestReportTypes
  <1>8. ASSUME NEW p \in Reports \X Destinations, SkipUnknown(p) PROVE RestReportTypes'
    BY <1>0, <1>8 DEF SkipUnknown, Done, outboxVars, RestReportTypes, SendTypes
  <1>9. ASSUME NEW p \in Reports \X Destinations, Send(p) PROVE RestReportTypes'
    <2>1. p[1] \in Reports /\ p[2] \in Destinations /\ p[2] <= Len(send.conf) /\ send.conf \in Configs
      BY <1>9 DEF Send, Known, RestReportTypes
    <2>2. Endpoint(send.conf, p[2]) \in Endpoints
      BY <2>1, DestinationFacts
    <2>3. /\ UNCHANGED <<outboxVars, clockBack, lastReport, meant>>
          /\ got' = got \/ got' = [got EXCEPT ![p[1]] = @ \union {Endpoint(send.conf, p[2])}]
          /\ send.left > 0 /\ send.pc = "flush"
          /\ \/ send' = [send EXCEPT !.pc = "ack"] \/ send' = Done(p)
             \/ send' = [Done(p) EXCEPT !.left = @ - 1]
      BY <1>9 DEF Send, Accept, AfterFailure, ContextOpen
    <2>4. got' \in [Reports -> SUBSET Endpoints]
      <3> DEFINE e == Endpoint(send.conf, p[2])
      <3>1. e \in Endpoints /\ (got' = got \/ got' = [got EXCEPT ![p[1]] = @ \union {e}])
        BY <2>2, <2>3
      <3> HIDE DEF e
      <3>2. got \in [Reports -> SUBSET Endpoints]
        BY DEF RestReportTypes
      <3> QED BY <2>1, <3>1, <3>2
    <2>5. /\ send'.conf = send.conf /\ send'.todo \subseteq send.todo
          /\ send'.left = send.left \/ send'.left = send.left - 1
      <3>1. Done(p) \in SendTypes /\ Done(p).left = send.left /\ Done(p).conf = send.conf
            /\ Done(p).todo \subseteq send.todo
        BY <1>0 DEF Done, SendTypes
      <3> QED BY <1>0, <2>3, <3>1 DEF SendTypes
    <2>6. send'.left \in 0..Patience
      <3>1. send.left \in 0..Patience
        BY DEF RestReportTypes
      <3> QED BY <1>0, <2>3, <2>5, <3>1
    <2> QED BY <2>1, <2>3, <2>4, <2>5, <2>6 DEF RestReportTypes, outboxVars
  <1>10. ASSUME NEW p \in Reports \X Destinations, Ack(p) PROVE RestReportTypes'
    <2>1. /\ UNCHANGED <<damaged, clockBack, lastReport, got, meant>>
          /\ file' = file \/ file' = [file EXCEPT ![p[1]] = CrossOut(p[1], p[2])]
          /\ send.pc = "ack"
          /\ \/ send' = [Done(p) EXCEPT !.pc = "flush"]
             \/ send' = [send EXCEPT !.pc = "flush", !.todo = {}]
      BY <1>10 DEF Ack
    <2>2. file' \in [Reports -> SUBSET Destinations]
      BY <2>1 DEF CrossOut, RestReportTypes
    <2>3. send'.conf = send.conf /\ send'.todo \subseteq send.todo /\ send'.left = send.left
      BY <1>0, <2>1 DEF Done, SendTypes
    <2> QED BY <2>1, <2>2, <2>3 DEF RestReportTypes
  <1>11. CASE Depth
    BY <1>4, <1>11 DEF Depth, RestReportTypes
  <1> QED BY <1>1, <1>2, <1>3, <1>5, <1>6, <1>7, <1>8, <1>9, <1>10, <1>11 DEF ReportingNext

\* Outbox, call of SendRequired and answers keep their types for every limit of the
\* outbox and every set of configurations: what a record owes and what Flush still
\* has to do are destinations of a configuration there is.
THEOREM ReportingTypeCorrect == ReportingSpec => []ReportingTypeOK
  <1>1. ReportingInit => RestReportTypes
    <2> SUFFICES ASSUME ReportingInit PROVE RestReportTypes
      OBVIOUS
    <2>1. /\ file = [r \in Reports |-> {}] /\ got = [r \in Reports |-> {}] /\ meant = [r \in Reports |-> <<>>]
          /\ damaged = {} /\ clockBack = FALSE /\ lastReport = "" /\ send = NoSend
      BY DEF ReportingInit
    <2>2. NoSend.pc = "idle" /\ NoSend.todo = {} /\ NoSend.left \in 0..Patience
      BY ReportingAssumption DEF NoSend
    <2> QED BY <2>1, <2>2 DEF RestReportTypes
  <1>2. AckInv /\ RestReportTypes => ReportingTypeOK
    BY DEF AckInv, ReportTypes, SendTypes, RestReportTypes, ReportingTypeOK
  <1>3. AckInv /\ RestReportTypes /\ [ReportingNext]_reportingVars => AckInv' /\ RestReportTypes'
    BY AckStep, ReportTypesStep DEF AckInv
  <1> QED BY <1>1, <1>2, <1>3, AckInit, PTL DEF ReportingSpec

-----------------------------------------------------------------------------
(* The egress addresses (EgressIP).                                         *)

\* The cache of a call knows every address the file knows, once it has loaded it.
KnownInv ==
    /\ cacheFile \in [Families -> Entries]
    /\ call \in [Processes -> Calls]
    /\ actual \in [Families -> Addresses]
    /\ \A p \in Processes : call[p].pc = "ask" =>
          \A f \in Families : cacheFile[f].addr # "none" => call[p].cache[f].addr # "none"

\* What the empty cache, a fresh entry and an idle process are.
LEMMA EntryFacts ==
    /\ NoEntry \in Entries /\ NoEntry.addr = "none"
    /\ EmptyCache \in [Families -> Entries] /\ \A f \in Families : EmptyCache[f].addr = "none"
    /\ AtRest \in Calls /\ AtRest.pc = "idle"
  BY EgressAssumption DEF NoEntry, Entries, EmptyCache, AtRest, Calls

LEMMA KnownInit == EgressInit => KnownInv
  BY EntryFacts DEF EgressInit, KnownInv

\* A failed request keeps the address of its entry.
LEMMA FailedEntryFacts ==
    ASSUME NEW e \in Entries PROVE FailedEntry(e) \in Entries /\ FailedEntry(e).addr = e.addr
  <1> DEFINE n == IF e.failures < MaxFailure THEN e.failures + 1 ELSE e.failures
  <1>1. n \in 0 .. MaxFailure
    BY EgressAssumption DEF Entries
  <1>2. FailedEntry(e) = [e EXCEPT !.failures = n, !.retry = TRUE]
    BY DEF FailedEntry
  <1> HIDE DEF n
  <1> QED BY <1>1, <1>2 DEF Entries

\* A step inside one call leaves the file alone.
LEMMA CallMoves ==
    ASSUME KnownInv, NEW p \in Processes, call' \in [Processes -> Calls],
           \A q \in Processes : q # p => call'[q] = call[q],
           \A f \in Families : cacheFile[f].addr # "none" => call'[p].cache[f].addr # "none",
           UNCHANGED <<cacheFile, actual>>
    PROVE  KnownInv'
  BY DEF KnownInv

\* With one process the file a call writes is the file it loaded, brought up to date.
LEMMA KnownStep ==
    ASSUME \A p, q \in Processes : p = q, KnownInv, [EgressNext]_egressVars
    PROVE  /\ KnownInv'
           /\ ~FileDamaged => \A f \in Families : cacheFile[f].addr # "none" => cacheFile'[f].addr # "none"
  <1> DEFINE Goal == /\ KnownInv'
                     /\ ~FileDamaged => \A f \in Families : cacheFile[f].addr # "none" => cacheFile'[f].addr # "none"
  <1>1. CASE UNCHANGED <<cacheFile, call, actual>>
    BY <1>1 DEF KnownInv
  <1>2. ASSUME NEW p \in Processes, Begin(p) PROVE Goal
    <2> DEFINE c == [pc |-> "ask", cache |-> cacheFile, pending |-> Pending(cacheFile), dirty |-> FALSE,
                     result |-> [f \in Families |-> cacheFile[f].addr]]
    <2>1. c \in Calls /\ c.cache = cacheFile
      BY DEF KnownInv, Calls, Pending, Entries
    <2>2. call' = [call EXCEPT ![p] = c] /\ UNCHANGED <<cacheFile, actual>>
      BY <1>2 DEF Begin
    <2> HIDE DEF c
    <2>3. call' \in [Processes -> Calls] /\ call'[p] = c /\ \A q \in Processes : q # p => call'[q] = call[q]
      BY <2>1, <2>2 DEF KnownInv
    <2> QED BY <2>1, <2>2, <2>3, CallMoves
  <1>3. ASSUME NEW p \in Processes, NEW f \in Families, Answered(p, f) PROVE Goal
    <2> DEFINE e == [addr |-> actual[f], at |-> "fresh", failures |-> 0, retry |-> FALSE]
    <2>1. e \in Entries /\ e.addr # "none" /\ actual[f] \in Addresses
      BY EgressAssumption DEF KnownInv, Entries
    <2>2. call[p] \in Calls /\ call[p].pc = "ask"
      BY <1>3 DEF KnownInv, Answered
    <2>3. UNCHANGED <<cacheFile, actual>>
      BY <1>3 DEF Answered
    <2>4. call' \in [Processes -> Calls] /\ \A q \in Processes : q # p => call'[q] = call[q]
      BY <1>3, <2>1, <2>2 DEF Answered, KnownInv, Calls
    <2>5. /\ call'[p].pc = call[p].pc /\ call'[p] \in Calls
          /\ call'[p].cache = [call[p].cache EXCEPT ![f] = e]
      BY <1>3, <2>1, <2>2 DEF Answered, KnownInv, Calls
    <2> HIDE DEF e
    <2>6. \A g \in Families : cacheFile[g].addr # "none" => call'[p].cache[g].addr # "none"
      BY <2>1, <2>2, <2>5 DEF KnownInv, Calls
    <2> QED BY <2>3, <2>4, <2>5, <2>6, CallMoves
  <1>4. ASSUME NEW p \in Processes, NEW f \in Families, Unanswered(p, f) PROVE Goal
    <2> DEFINE e == FailedEntry(call[p].cache[f])
               c == [call[p] EXCEPT !.pending = @ \ {f}, !.dirty = TRUE, !.cache[f] = e]
    <2>2. call[p] \in Calls /\ call[p].pc = "ask"
      BY <1>4 DEF KnownInv, Unanswered
    <2>1. e \in Entries /\ e.addr = call[p].cache[f].addr
      BY <2>2, FailedEntryFacts DEF Calls
    <2>3. call' = [call EXCEPT ![p] = c] /\ UNCHANGED <<cacheFile, actual>>
      BY <1>4 DEF Unanswered, KnownInv
    <2> HIDE DEF e
    <2>4. c \in Calls /\ c.cache = [call[p].cache EXCEPT ![f] = e]
      BY <2>1, <2>2 DEF Calls
    <2>5. \A g \in Families : cacheFile[g].addr # "none" => c.cache[g].addr # "none"
      BY <2>1, <2>2, <2>4 DEF KnownInv, Calls
    <2> HIDE DEF c
    <2>6. call' \in [Processes -> Calls] /\ call'[p] = c /\ \A q \in Processes : q # p => call'[q] = call[q]
      BY <2>3, <2>4 DEF KnownInv
    <2> QED BY <2>3, <2>5, <2>6, CallMoves
  <1>5. ASSUME NEW p \in Processes, Finish(p) PROVE Goal
    <2>1. call[p] \in Calls /\ call[p].pc = "ask"
      BY <1>5 DEF KnownInv, Finish
    <2>2. cacheFile' \in {cacheFile, call[p].cache} /\ call' = [call EXCEPT ![p] = AtRest] /\ actual' = actual
      BY <1>5 DEF Finish
    <2>3. cacheFile' \in [Families -> Entries]
      BY <2>1, <2>2 DEF KnownInv, Calls
    <2>4. \A f \in Families : cacheFile[f].addr # "none" => cacheFile'[f].addr # "none"
      BY <2>1, <2>2 DEF KnownInv
    <2>5. \A q \in Processes : call'[q] = AtRest
      BY <2>2 DEF KnownInv
    <2>6. call' \in [Processes -> Calls]
      BY <2>2, EntryFacts DEF KnownInv
    <2> QED BY <2>2, <2>3, <2>4, <2>5, <2>6, EntryFacts DEF KnownInv
  <1>6. ASSUME NEW f \in Families, Ages(f) \/ RetryPasses(f) PROVE Goal
    <2>1. UNCHANGED <<call, actual>>
      BY <1>6 DEF Ages, RetryPasses
    <2>2. PICK e \in Entries : cacheFile' = [cacheFile EXCEPT ![f] = e] /\ e.addr = cacheFile[f].addr
      <3>1. CASE Ages(f)
        <4>1. cacheFile' = [cacheFile EXCEPT ![f] = [cacheFile[f] EXCEPT !.at = "old"]]
          BY <3>1 DEF Ages
        <4>2. [cacheFile[f] EXCEPT !.at = "old"] \in Entries
          BY DEF KnownInv, Entries
        <4>3. [cacheFile[f] EXCEPT !.at = "old"].addr = cacheFile[f].addr
          BY DEF KnownInv, Entries
        <4> QED BY <4>1, <4>2, <4>3
      <3>2. CASE RetryPasses(f)
        <4>1. cacheFile' = [cacheFile EXCEPT ![f] = [cacheFile[f] EXCEPT !.retry = FALSE]]
          BY <3>2 DEF RetryPasses
        <4>2. [cacheFile[f] EXCEPT !.retry = FALSE] \in Entries
          BY DEF KnownInv, Entries
        <4>3. [cacheFile[f] EXCEPT !.retry = FALSE].addr = cacheFile[f].addr
          BY DEF KnownInv, Entries
        <4> QED BY <4>1, <4>2, <4>3
      <3> QED BY <1>6, <3>1, <3>2
    <2>3. cacheFile' \in [Families -> Entries] /\ \A g \in Families : cacheFile'[g].addr = cacheFile[g].addr
      BY <2>2 DEF KnownInv
    <2> QED BY <2>1, <2>3 DEF KnownInv
  <1>7. ASSUME NEW f \in Families, Moves(f) PROVE Goal
    <2>1. actual' \in [Families -> Addresses] /\ UNCHANGED <<cacheFile, call>>
      BY <1>7 DEF Moves, KnownInv
    <2> QED BY <2>1 DEF KnownInv
  <1>8. CASE FileDamaged
    <2>1. cacheFile' = EmptyCache /\ UNCHANGED <<call, actual>>
      BY <1>8 DEF FileDamaged
    <2> QED BY <1>8, <2>1, EntryFacts DEF KnownInv
  <1>9. ASSUME NEW f \in Families, Unserve(f) PROVE Goal
    BY <1>1, <1>9 DEF Unserve
  <1> QED BY <1>1, <1>2, <1>3, <1>4, <1>5, <1>6, <1>7, <1>8, <1>9 DEF EgressNext, Resolve, egressVars

\* An address Resolve (resolver.go) has found stays known through failed requests,
\* failed writes and moves of the machine, for every number of families and
\* addresses, as long as one process at a time uses the cache file.
THEOREM KnownAddressesAreKept ==
    ASSUME \A p, q \in Processes : p = q
    PROVE  EgressSpec => KnownIsKept
  <1>1. KnownInv /\ [EgressNext]_egressVars => KnownInv'
    BY KnownStep
  <1>2. KnownInv /\ [EgressNext]_egressVars =>
          [~FileDamaged => \A f \in Families : cacheFile[f].addr # "none" => cacheFile'[f].addr # "none"]_egressVars
    BY KnownStep
  <1> QED BY <1>1, <1>2, KnownInit, PTL DEF EgressSpec, KnownIsKept

-----------------------------------------------------------------------------
\* Without the premise of one process only the types are kept.
LEMMA EgressTypesStep == ASSUME EgressTypeOK, [EgressNext]_egressVars PROVE EgressTypeOK'
  <1>0. /\ MaxMoves \in Nat /\ MaxTroubles \in Nat /\ MaxFailure \in Nat
        /\ cacheFile \in [Families -> Entries] /\ call \in [Processes -> Calls]
        /\ reported \in [Families -> Addresses \cup {"none"}] /\ served \subseteq Families
        /\ actual \in [Families -> Addresses] /\ moves \in 0 .. MaxMoves /\ troubles \in 0 .. MaxTroubles
    BY EgressAssumption DEF EgressTypeOK
  <1>1. ASSUME NEW p \in Processes, Begin(p) PROVE EgressTypeOK'
    <2> DEFINE c == [pc |-> "ask", cache |-> cacheFile, pending |-> Pending(cacheFile), dirty |-> FALSE,
                     result |-> [f \in Families |-> cacheFile[f].addr]]
    <2>1. c \in Calls
      BY <1>0 DEF Calls, Pending, Entries
    <2>2. call' = [call EXCEPT ![p] = c] /\ UNCHANGED <<cacheFile, reported, served, actual, moves, troubles>>
      BY <1>1 DEF Begin
    <2> HIDE DEF c
    <2> QED BY <1>0, <2>1, <2>2 DEF EgressTypeOK
  <1>2. ASSUME NEW p \in Processes, NEW f \in Families, Answered(p, f) PROVE EgressTypeOK'
    <2> DEFINE e == [addr |-> actual[f], at |-> "fresh", failures |-> 0, retry |-> FALSE]
    <2>1. e \in Entries /\ actual[f] \in Addresses /\ call[p] \in Calls
      BY <1>0 DEF Entries
    <2>2. UNCHANGED <<cacheFile, reported, served, actual, moves, troubles>>
      BY <1>2 DEF Answered
    <2>3. call' \in [Processes -> Calls]
      BY <1>0, <1>2, <2>1 DEF Answered, Calls
    <2> QED BY <1>0, <2>2, <2>3 DEF EgressTypeOK
  <1>3. ASSUME NEW p \in Processes, NEW f \in Families, Unanswered(p, f) PROVE EgressTypeOK'
    <2> DEFINE e == FailedEntry(call[p].cache[f])
               c == [call[p] EXCEPT !.pending = @ \ {f}, !.dirty = TRUE, !.cache[f] = e]
    <2>1. e \in Entries
      BY <1>0, FailedEntryFacts DEF Calls
    <2>2. call' = [call EXCEPT ![p] = c] /\ UNCHANGED <<cacheFile, reported, served, actual, moves>>
      BY <1>0, <1>3 DEF Unanswered
    <2> HIDE DEF e
    <2>3. c \in Calls
      BY <1>0, <2>1 DEF Calls
    <2>4. troubles' \in 0 .. MaxTroubles
      BY <1>0, <1>3 DEF Unanswered
    <2> QED BY <1>0, <2>2, <2>3, <2>4 DEF EgressTypeOK
  <1>4. ASSUME NEW p \in Processes, Finish(p) PROVE EgressTypeOK'
    <2>1. call[p].cache \in [Families -> Entries] /\ call[p].result \in [Families -> Addresses \cup {"none"}]
      BY <1>0 DEF Calls
    <2>2. /\ cacheFile' \in {cacheFile, call[p].cache} /\ reported' = call[p].result
          /\ call' = [call EXCEPT ![p] = AtRest] /\ UNCHANGED <<served, actual, moves, troubles>>
      BY <1>4 DEF Finish
    <2> QED BY <1>0, <2>1, <2>2, EntryFacts DEF EgressTypeOK
  <1>5. ASSUME NEW f \in Families, Ages(f) \/ RetryPasses(f) PROVE EgressTypeOK'
    <2>1. PICK e \in Entries : cacheFile' = [cacheFile EXCEPT ![f] = e]
      <3>1. [cacheFile[f] EXCEPT !.at = "old"] \in Entries /\ [cacheFile[f] EXCEPT !.retry = FALSE] \in Entries
        BY <1>0 DEF Entries
      <3>2. cacheFile' \in {[cacheFile EXCEPT ![f] = [cacheFile[f] EXCEPT !.at = "old"]],
                            [cacheFile EXCEPT ![f] = [cacheFile[f] EXCEPT !.retry = FALSE]]}
        BY <1>5 DEF Ages, RetryPasses
      <3> QED BY <3>1, <3>2
    <2>2. UNCHANGED <<call, reported, served, actual, moves, troubles>>
      BY <1>5 DEF Ages, RetryPasses
    <2> QED BY <1>0, <2>1, <2>2 DEF EgressTypeOK
  <1>6. ASSUME NEW f \in Families, Moves(f) PROVE EgressTypeOK'
    <2>1. moves' \in 0 .. MaxMoves /\ actual' \in [Families -> Addresses]
          /\ UNCHANGED <<cacheFile, call, reported, served, troubles>>
      BY <1>0, <1>6 DEF Moves
    <2> QED BY <1>0, <2>1 DEF EgressTypeOK
  <1>7. ASSUME NEW f \in Families, Unserve(f) PROVE EgressTypeOK'
    BY <1>0, <1>7 DEF Unserve, EgressTypeOK
  <1>8. CASE FileDamaged
    BY <1>0, <1>8, EntryFacts DEF FileDamaged, EgressTypeOK
  <1>9. CASE UNCHANGED egressVars
    BY <1>0, <1>9 DEF egressVars, EgressTypeOK
  <1> QED BY <1>1, <1>2, <1>3, <1>4, <1>5, <1>6, <1>7, <1>8, <1>9 DEF EgressNext, Resolve

\* Cache file, calls and reports keep their types, and failure_count its cap, for
\* every number of families and addresses and of processes that resolve at once.
THEOREM EgressTypeCorrect == EgressSpec => []EgressTypeOK
  <1>1. EgressInit => EgressTypeOK
    BY EgressAssumption, EntryFacts DEF EgressInit, EgressTypeOK
  <1> QED BY <1>1, EgressTypesStep, PTL DEF EgressSpec
=============================================================================
