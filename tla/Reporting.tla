------------------------------ MODULE Reporting ------------------------------
(***************************************************************************)
(* The Agent's way of reporting: collectOnce (internal/agent/runtime.go)   *)
(* puts each report into the durable outbox (outbox.go) and tries every    *)
(* report there at each destination it still owes (reporter.go, sink.go).  *)
(* The Panel's side is handleReport (internal/panel/api/report.go).        *)
(*                                                                         *)
(* Reports are numbered in the order of their collection; a file of the    *)
(* outbox is named after the wall clock.  Destination 0 is "panel", and d  *)
(* is "webhook:d-1", whichever endpoint stands there in the configuration. *)
(***************************************************************************)
EXTENDS Integers, Sequences, FiniteSets, FiniteSetsExt

CONSTANTS
    MaxReport,   \* bound on the reports collected
    MaxItems,    \* Limits.MaxItems; 120 in the code
    MaxBytes,    \* Limits.MaxBytes; 16 MiB in the code
    SizeOf,      \* of each report: the size of its body
    Configs,     \* the sequences of webhook endpoints that may be configured
    PanelSends,  \* how a request to the Panel may end, of SendOutcomes
    HookSends,   \* how a request to a webhook may end
    Patience,    \* sends that hang until collect_timeout is over; 5 in the code
    ReportFaults \* what else may happen, of the list below

\* A request is answered with 2xx; refused; accepted, but the answer is lost;
\* or it hangs until the client's timeout.
SendOutcomes == {"ok", "refused", "lost", "hang"}

ASSUME ReportingAssumption ==
    /\ MaxReport \in Nat /\ MaxItems \in Nat \ {0} /\ MaxBytes \in Nat \ {0}
    /\ SizeOf \in [1..MaxReport -> Nat \ {0}]
    /\ Configs \subseteq Seq(STRING)
    /\ PanelSends \subseteq SendOutcomes /\ HookSends \subseteq SendOutcomes
    /\ Patience \in Nat \ {0}
    /\ ReportFaults \subseteq {"crash", "disk", "damage", "clock", "build", "reload"}

Reports == 1..MaxReport
Endpoints == {"panel"} \union UNION {{c[i] : i \in DOMAIN c} : c \in Configs}
Destinations == UNION {0..Len(c) : c \in Configs}

VARIABLES
    file,       \* of each report: the pending destinations of its record, {} without one
    stamp,      \* of each report: the time in its file name
    damaged,    \* the reports whose record cannot be read any more
    conf,       \* the webhooks of the snapshot in force
    clockBack,  \* whether the wall clock was set back
    last,       \* the last report collected
    send,       \* the call of SendRequired under way
    lastReport, \* Runtime.lastReport
    got,        \* of each report: the endpoints that accepted it
    meant       \* of each report: the webhooks configured at its collection

outboxVars == <<file, stamp, damaged>>
reportingVars == <<outboxVars, conf, clockBack, last, send, lastReport, got, meant>>

-----------------------------------------------------------------------------
\* left counts the sends that may hang before the context of the call is over.
NoSend == [pc |-> "idle", cur |-> 0, conf |-> <<>>, todo |-> {}, left |-> 0]

ReportingInit ==
    /\ file = [r \in Reports |-> {}]
    /\ stamp = [r \in Reports |-> r]
    /\ damaged = {}
    /\ conf \in Configs
    /\ clockBack = FALSE
    /\ last = 0
    /\ send = NoSend
    /\ lastReport = ""
    /\ got = [r \in Reports |-> {}]
    /\ meant = [r \in Reports |-> <<>>]

Endpoint(c, d) == IF d = 0 THEN "panel" ELSE c[d]

\* List: the records that can be read; the others move to the quarantine.
Readable == {r \in Reports : file[r] # {} /\ r \notin damaged}
AfterList(kept) == [r \in Reports |-> IF r \in kept THEN file[r] ELSE {}]

-----------------------------------------------------------------------------
(* Outbox.Put and its limits *)

Fits(S) ==
    /\ Cardinality(S) <= MaxItems
    /\ MapThenSumSet(LAMBDA r : SizeOf[r], S) <= MaxBytes

\* Mutant: the newest report goes first.
KeptNewestFirst(S) == {r \in S : Fits({x \in S : stamp[x] <= stamp[r]})}

\* enforceLimitsLocked removes the oldest record, by name, until the rest fits.
Kept(S) == {r \in S : Fits({x \in S : stamp[x] >= stamp[r]})}

\* collectOnce builds a report; Put writes its record atomically.
Collect ==
    /\ send.pc = "idle"
    /\ last < MaxReport
    /\ last' = last + 1
    /\ file' = [file EXCEPT ![last + 1] = 0..Len(conf)]
    /\ stamp' = [stamp EXCEPT ![last + 1] = IF clockBack THEN @ - MaxReport ELSE @]
    /\ meant' = [meant EXCEPT ![last + 1] = conf]
    /\ send' = [pc |-> "put", cur |-> last + 1, conf |-> conf, todo |-> {}, left |-> Patience]
    /\ UNCHANGED <<damaged, conf, clockBack, lastReport, got>>

\* No report is built, or its record cannot be written.
CollectFails ==
    /\ send.pc = "idle"
    /\ \/ "build" \in ReportFaults /\ lastReport' = "collect_failed"
       \/ "disk" \in ReportFaults /\ lastReport' = "panel_not_acknowledged"
    /\ UNCHANGED <<outboxVars, conf, clockBack, last, send, got, meant>>

\* The rest of Put, under the same lock, and the List of Flush.
Enforce ==
    /\ send.pc = "put"
    /\ LET kept == Kept(Readable) IN
       /\ file' = AfterList(kept)
       /\ IF send.cur \in kept
          THEN /\ send' = [send EXCEPT !.pc = "flush",
                               !.todo = UNION {{<<r, d>> : d \in file[r]} : r \in kept}]
               /\ UNCHANGED lastReport
          ELSE /\ send' = NoSend
               /\ lastReport' = "panel_not_acknowledged"
    /\ UNCHANGED <<stamp, damaged, conf, clockBack, last, got, meant>>

-----------------------------------------------------------------------------
(* Reporter.Flush *)

\* Flush goes by the name of the record, then by the order of its destinations.
First(p) ==
    \A q \in send.todo : stamp[p[1]] < stamp[q[1]] \/ (p[1] = q[1] /\ p[2] <= q[2])

\* Flush looks at ctx.Err() before each send.
ContextOpen == send.left > 0

Known(d) == d <= Len(send.conf)
Done(p) == [send EXCEPT !.todo = @ \ {p}]

\* A destination that is no longer configured stays pending.
SkipUnknown(p) ==
    /\ send.pc = "flush"
    /\ p \in send.todo /\ First(p)
    /\ ContextOpen
    /\ ~Known(p[2])
    /\ send' = Done(p)
    /\ UNCHANGED <<outboxVars, conf, clockBack, last, lastReport, got, meant>>

\* handleReport stores the report, whatever is stored already; a webhook is
\* external.
Accept(r, e) == got' = [got EXCEPT ![r] = @ \union {e}]

\* Flush notes the failure and goes on with the next destination.
AfterFailure(p) == Done(p)

\* Sink.Send.
Send(p) ==
    /\ send.pc = "flush"
    /\ p \in send.todo /\ First(p)
    /\ ContextOpen
    /\ Known(p[2])
    /\ LET e == Endpoint(send.conf, p[2]) IN
       \E o \in (IF p[2] = 0 THEN PanelSends ELSE HookSends) :
          /\ IF o \in {"ok", "lost"} THEN Accept(p[1], e) ELSE UNCHANGED got
          /\ send' = CASE o = "ok" -> [send EXCEPT !.pc = "ack"]
                       [] o = "hang" -> [AfterFailure(p) EXCEPT !.left = @ - 1]
                       [] OTHER -> AfterFailure(p)
    /\ UNCHANGED <<outboxVars, conf, clockBack, last, lastReport, meant>>

\* collect_timeout is over before the next send: Flush returns.
Timeout ==
    /\ send.pc = "flush"
    /\ send.todo # {}
    /\ send.left = 0
    /\ send' = [send EXCEPT !.todo = {}]
    /\ UNCHANGED <<outboxVars, conf, clockBack, last, lastReport, got, meant>>

CrossOut(r, d) == file[r] \ {d}

\* Outbox.Ack; without destinations left the record is removed.  It fails when
\* the record cannot be read or written, and Flush returns.
Ack(p) ==
    /\ send.pc = "ack"
    /\ p \in send.todo /\ First(p)
    /\ \/ /\ p[1] \in Readable
          /\ file' = [file EXCEPT ![p[1]] = CrossOut(p[1], p[2])]
          /\ send' = [Done(p) EXCEPT !.pc = "flush"]
       \/ /\ p[1] \notin Readable \/ "disk" \in ReportFaults
          /\ send' = [send EXCEPT !.pc = "flush", !.todo = {}]
          /\ UNCHANGED file
    /\ UNCHANGED <<stamp, damaged, conf, clockBack, last, lastReport, got, meant>>

-----------------------------------------------------------------------------
(* The end of SendRequired *)

\* Mutant: a report that was tried counts as acknowledged.
StillPendingNever == FALSE

\* The report is still in the outbox and still owed to the Panel.
StillPending == send.cur \in Readable /\ 0 \in file[send.cur]

\* SendRequired lists the outbox once more; collectOnce notes the result.
Check ==
    /\ send.pc = "flush"
    /\ send.todo = {}
    /\ file' = AfterList(Readable)
    /\ \/ lastReport' = IF StillPending THEN "panel_not_acknowledged" ELSE "report_acknowledged"
       \/ "disk" \in ReportFaults /\ lastReport' = "panel_not_acknowledged"
    /\ send' = NoSend
    /\ UNCHANGED <<stamp, damaged, conf, clockBack, last, got, meant>>

-----------------------------------------------------------------------------
(* The control client, the operator and the world *)

\* OutboxDepth of a heartbeat lists, and so quarantines; Put holds the lock.
Depth ==
    /\ send.pc # "put"
    /\ \E r \in damaged : file[r] # {}
    /\ file' = AfterList(Readable)
    /\ UNCHANGED <<stamp, damaged, conf, clockBack, last, send, lastReport, got, meant>>

\* Reload: a collection under way keeps its snapshot.
Reload ==
    /\ "reload" \in ReportFaults
    /\ conf' \in Configs \ {conf}
    /\ UNCHANGED <<outboxVars, clockBack, last, send, lastReport, got, meant>>

Crash ==
    /\ "crash" \in ReportFaults
    /\ send.pc # "idle"
    /\ send' = NoSend
    /\ lastReport' = ""
    /\ UNCHANGED <<outboxVars, conf, clockBack, last, got, meant>>

Damage(r) ==
    /\ "damage" \in ReportFaults
    /\ r \in Readable
    /\ damaged' = damaged \union {r}
    /\ UNCHANGED <<file, stamp, conf, clockBack, last, send, lastReport, got, meant>>

ClockStep ==
    /\ "clock" \in ReportFaults
    /\ ~clockBack
    /\ clockBack' = TRUE
    /\ UNCHANGED <<outboxVars, conf, last, send, lastReport, got, meant>>

-----------------------------------------------------------------------------
ReportingNext ==
    \/ Collect \/ CollectFails \/ Enforce \/ Timeout \/ Check
    \/ \E p \in Reports \X Destinations : SkipUnknown(p) \/ Send(p) \/ Ack(p)
    \/ Depth \/ Reload \/ Crash \/ ClockStep
    \/ \E r \in Reports : Damage(r)

ReportingSpec == ReportingInit /\ [][ReportingNext]_reportingVars

-----------------------------------------------------------------------------
\* Type correctness of the reporting state.
ReportingTypeOK ==
    /\ file \in [Reports -> SUBSET Destinations]
    /\ stamp \in [Reports -> Int]
    /\ damaged \subseteq Reports
    /\ conf \in Configs
    /\ clockBack \in BOOLEAN
    /\ last \in 0..MaxReport
    /\ send.pc \in {"idle", "put", "flush", "ack"}
    /\ send.cur \in 0..MaxReport
    /\ send.conf \in Configs \union {<<>>}
    /\ send.todo \subseteq Reports \X Destinations
    /\ send.left \in 0..Patience
    /\ lastReport \in {"", "collect_failed", "panel_not_acknowledged", "report_acknowledged"}
    /\ got \in [Reports -> SUBSET Endpoints]
    /\ meant \in [Reports -> Configs \union {<<>>}]

\* The outbox as Delivery describes it.  The destinations that have accepted a
\* report are those of its plan whose endpoint has.
AcceptedAt(r) == {d \in 0..Len(meant[r]) : Endpoint(meant[r], d) \in got[r]}

Outbox == INSTANCE Delivery WITH
    Plans <- {0..Len(c) : c \in Configs},
    Fitting <- {S \in SUBSET Reports : Fits(S)},
    collected <- 1..last,
    owed <- file,
    accepted <- [r \in Reports |-> AcceptedAt(r)],
    unreadable <- damaged

\* Put, Flush and Ack keep the outbox's promise through crashes, full disks, lost
\* answers, timeouts and steps of the clock: a destination is crossed out only
\* once the endpoint it stood for when the report was collected has accepted it,
\* and the limits take no more than they must, the oldest first.
ImplementsDelivery == Outbox!Spec

\* "delete item after all ACK": a record leaves the outbox when every endpoint
\* it was meant for has accepted the report, when the outbox is over its limits,
\* or when it cannot be read; not by a crash, a full disk or a lost answer.  "At
\* the limit, the oldest report is removed": what the limits push out is older than
\* everything that stays, unless the wall clock was set back.
LeavesOnlyDelivered ==
    /\ [][\A r \in Reports : file[r] # {} /\ file'[r] = {} =>
             \/ r \in damaged
             \/ ~Fits(Readable)
             \/ {"panel"} \union {meant[r][i] : i \in DOMAIN meant[r]} \subseteq got[r]]_reportingVars
    /\ [][send.pc = "put" /\ ~clockBack =>
             \A r, q \in Readable : file'[r] = {} /\ file'[q] # {} /\ file'[q] = file[q] => r < q]_reportingVars

\* What the upgrade's proof of health and a collect_now command rest on:
\* collectOnce succeeds only when the Panel has accepted this very report (or
\* its record was damaged under way, which SendRequired takes for success).
AcknowledgedWasAccepted ==
    [][send.cur # 0 /\ send'.cur = 0 /\ lastReport' = "report_acknowledged" =>
          "panel" \in got[send.cur] \/ send.cur \in damaged]_reportingVars
=============================================================================
