------------------------------ MODULE Alerting ------------------------------
(***************************************************************************)
(* The Panel's alerts (internal/panel/alert/alert.go): Evaluate, called    *)
(* once a minute by one goroutine, against reports, acknowledgements,      *)
(* mutes and node deletions of the API (internal/panel/api).               *)
(*                                                                         *)
(* A node is what the rules see of it; a notification is the alert it is   *)
(* about.  Messages and times of an alert are left out, and with them the  *)
(* statements of Evaluate that set nothing else.  An alert keeps its row   *)
(* identifier, which SQLite gives again once the highest row is deleted.   *)
(***************************************************************************)
EXTENDS Integers, FiniteSets, FiniteSetsExt

CONSTANTS
    Nodes,        \* node identifiers
    Facts,        \* the rules a report can trigger (service_down, ...)
    MaxEvents,    \* bound: reports, silences and mutes
    MaxAcks,      \* bound: acknowledgements
    MaxDeletes,   \* bound: node deletions
    MaxFailures   \* bound: failed statements, failed sends and restarts

VARIABLES
    node,       \* nodes: whether a row exists, reports in time, is muted, and
                \* which rules its last report triggers
    alert,      \* the rows of alerts, by their identifier
    eval,       \* where Evaluate is
    existing,   \* the alerts Evaluate has loaded: the newest of each key
    triggered,  \* the keys Evaluate has found triggered
    left,       \* the keys the current loop of Evaluate has still to visit
    notices,    \* the alerts whose notification Evaluate has still to send
    deleting,   \* the node whose deletion is under way
    spent       \* how much of each bound is used up

alertVars == <<node, alert, eval, existing, triggered, left, notices, deleting, spent>>

-----------------------------------------------------------------------------
Rules == Facts \cup {"node_offline"}
AlertKeys == Nodes \X Rules
NoNode == "no node"
Alerts == [key: AlertKeys, status: {"firing", "acknowledged", "recovered"}, told: BOOLEAN]
Unseen == [row |-> FALSE, heard |-> FALSE, muted |-> FALSE, facts |-> {}]
NoneLoaded == [id |-> 0, status |-> "none"]
Budgets == [event |-> MaxEvents, ack |-> MaxAcks, delete |-> MaxDeletes,
            failure |-> MaxFailures]

Spend(kind) ==
    /\ spent[kind] < Budgets[kind]
    /\ spent' = [spent EXCEPT ![kind] = @ + 1]

AlertInit ==
    /\ node = [n \in Nodes |-> Unseen]
    /\ alert = [i \in {} |-> NoneLoaded]
    /\ eval = "idle"
    /\ existing = [k \in AlertKeys |-> NoneLoaded]
    /\ triggered = {} /\ left = {} /\ notices = {}
    /\ deleting = NoNode
    /\ spent = [kind \in DOMAIN Budgets |-> 0]

Used == DOMAIN alert
RowsOf(k) == {i \in Used : alert[i].key = k}

evalVars == <<eval, existing, triggered, left, notices>>

-----------------------------------------------------------------------------
(* The API.                                                                *)

\* handleReport stores the report and the time it came in.
Report(n, facts) ==
    /\ Spend("event")
    /\ node' = [node EXCEPT ![n].row = TRUE, ![n].heard = TRUE, ![n].facts = facts]
    /\ UNCHANGED <<alert, evalVars, deleting>>

\* node_timeout passes without a report.
FallSilent(n) ==
    /\ node[n].row /\ node[n].heard
    /\ Spend("event")
    /\ node' = [node EXCEPT ![n].heard = FALSE]
    /\ UNCHANGED <<alert, evalVars, deleting>>

\* handleNodePatch sets muted_until; it passes, or is set back.
Mute(n) ==
    /\ node[n].row
    /\ Spend("event")
    /\ node' = [node EXCEPT ![n].muted = ~@]
    /\ UNCHANGED <<alert, evalVars, deleting>>

\* handleAlertAck takes any alert, whatever its status.
Acknowledge(i) ==
    /\ Spend("ack")
    /\ alert' = [alert EXCEPT ![i].status = "acknowledged"]
    /\ UNCHANGED <<node, evalVars, deleting>>

\* handleNodeDelete removes the alerts of the node, and then its row.
DeleteAlerts(n) ==
    /\ deleting = NoNode
    /\ Spend("delete")
    /\ deleting' = n
    /\ alert' = [i \in {j \in Used : alert[j].key[1] # n} |-> alert[i]]
    /\ UNCHANGED <<node, evalVars>>

DeleteRow ==
    /\ deleting # NoNode
    /\ node' = [node EXCEPT ![deleting] = Unseen]
    /\ deleting' = NoNode
    /\ UNCHANGED <<alert, evalVars, spent>>

-----------------------------------------------------------------------------
(* Evaluate.                                                               *)

\* Rows are read in the order of their identifiers; the last one remains.
Latest(k) == Max(RowsOf(k))

LoadAlerts ==
    /\ eval = "idle"
    /\ existing' = [k \in AlertKeys |-> IF RowsOf(k) = {} THEN NoneLoaded
                                   ELSE [id |-> Latest(k), status |-> alert[Latest(k)].status]]
    /\ eval' = "nodes"
    /\ UNCHANGED <<node, alert, triggered, left, notices, deleting, spent>>

\* The rules of one node: none while it is muted, node_offline alone when it
\* has not reported in time, and otherwise what its report says.
RulesOf(n) ==
    IF ~node[n].row \/ node[n].muted THEN {}
    ELSE IF ~node[n].heard THEN {"node_offline"} ELSE node[n].facts

Holds(k) == k[2] \in RulesOf(k[1])

\* A triggered key gets a new row unless its newest one is open.
Raises(k) == existing[k].status \in {"none", "recovered"}

LoadNodes ==
    /\ eval = "nodes"
    /\ triggered' = {k \in AlertKeys : Holds(k)}
    /\ left' = {k \in AlertKeys : Holds(k) /\ Raises(k)}
    /\ eval' = "fire"
    /\ UNCHANGED <<node, alert, existing, notices, deleting, spent>>

NewId == IF Used = {} THEN 1 ELSE Max(Used) + 1

\* The unique index on firing alerts refuses a second one of the same key.
Conflicts(k) == \E i \in RowsOf(k) : alert[i].status = "firing"

Fire(k) ==
    /\ eval = "fire" /\ k \in left
    /\ ~Conflicts(k)
    /\ alert' = [i \in Used \cup {NewId} |->
                   IF i = NewId THEN [key |-> k, status |-> "firing", told |-> FALSE] ELSE alert[i]]
    /\ notices' = notices \cup {[of |-> NewId, kind |-> "firing"]}
    /\ left' = left \ {k}
    /\ UNCHANGED <<node, eval, existing, triggered, deleting, spent>>

\* Mutant: only alerts of nodes that were loaded can recover.
RecoversLoaded(k) == existing[k].status = "firing" /\ k \notin triggered /\ node[k[1]].row

Recovers(k) == existing[k].status = "firing" /\ k \notin triggered

BeginRecover ==
    /\ eval = "fire" /\ left = {}
    /\ eval' = "recover"
    /\ left' = {k \in AlertKeys : Recovers(k)}
    /\ UNCHANGED <<node, alert, existing, triggered, notices, deleting, spent>>

\* Mutant: the statement names the row by its position in the list.
RecoveredRowNext(k) == existing[k].id + 1

\* UPDATE alerts ... WHERE id=?, whatever the row holds by now.
RecoveredRow(k) == existing[k].id

Recover(k) ==
    LET i == RecoveredRow(k) IN
    /\ eval = "recover" /\ k \in left
    /\ alert' = IF i \in Used THEN [alert EXCEPT ![i].status = "recovered"] ELSE alert
    /\ notices' = notices \cup {[of |-> i, kind |-> "recovered"]}
    /\ left' = left \ {k}
    /\ UNCHANGED <<node, eval, existing, triggered, deleting, spent>>

BeginNotify ==
    /\ eval = "recover" /\ left = {}
    /\ eval' = "notify"
    /\ UNCHANGED <<node, alert, existing, triggered, left, notices, deleting, spent>>

\* The alerts come first, then the recoveries, each in the order of the loop.
MayNotify(x) ==
    /\ eval = "notify" /\ x \in notices
    /\ x.kind = "recovered" => \A y \in notices : y.kind = "recovered"

Notify(x) ==
    /\ MayNotify(x)
    /\ notices' = notices \ {x}
    /\ alert' = IF x.kind = "firing" /\ x.of \in Used
                THEN [alert EXCEPT ![x.of].told = TRUE] ELSE alert
    /\ UNCHANGED <<node, eval, existing, triggered, left, deleting, spent>>

\* A send that fails is remembered for the log, and the next one is made.
NotifyFails(x) ==
    /\ MayNotify(x)
    /\ Spend("failure")
    /\ notices' = notices \ {x}
    /\ UNCHANGED <<node, alert, eval, existing, triggered, left, deleting>>

\* Mutant: the notifications of the evaluation are dropped at its end.
FinishedUnsent == eval = "notify"

Finished == eval = "notify" /\ notices = {}

Forget ==
    /\ eval' = "idle"
    /\ existing' = [k \in AlertKeys |-> NoneLoaded]
    /\ triggered' = {} /\ left' = {} /\ notices' = {}

EvaluateReturns ==
    /\ Finished
    /\ Forget
    /\ UNCHANGED <<node, alert, deleting, spent>>

\* A statement fails and Evaluate returns its error at once; or the Panel is
\* restarted.
EvaluateAborts ==
    /\ eval # "idle"
    /\ eval = "notify" => notices # {}
    /\ Spend("failure")
    /\ Forget
    /\ UNCHANGED <<node, alert, deleting>>

Evaluate ==
    \/ LoadAlerts \/ LoadNodes \/ BeginRecover \/ BeginNotify \/ EvaluateReturns
    \/ \E k \in AlertKeys : Fire(k) \/ Recover(k)
    \/ \E x \in notices : Notify(x)

AlertNext ==
    \/ Evaluate
    \/ \E x \in notices : NotifyFails(x)
    \/ EvaluateAborts
    \/ \E n \in Nodes :
         \/ \E facts \in SUBSET Facts : Report(n, facts)
         \/ FallSilent(n) \/ Mute(n) \/ DeleteAlerts(n)
    \/ \E i \in Used : Acknowledge(i)
    \/ DeleteRow

AlertSpec == AlertInit /\ [][AlertNext]_alertVars

\* runEvery calls Evaluate again and again; a handler runs to its end.
AlertFairSpec == AlertSpec /\ WF_alertVars(Evaluate) /\ WF_alertVars(DeleteRow)

-----------------------------------------------------------------------------
(* Properties.                                                             *)

\* Every variable has its type.
AlertTypeOK ==
    /\ \A n \in Nodes : node[n].facts \subseteq Facts
    /\ \A i \in Used : i \in Nat \ {0} /\ alert[i] \in Alerts
    /\ eval \in {"idle", "nodes", "fire", "recover", "notify"}
    /\ triggered \subseteq AlertKeys /\ left \subseteq AlertKeys
    /\ \A x \in notices : x.of \in Nat /\ x.kind \in {"firing", "recovered"}
    /\ deleting \in Nodes \cup {NoNode}

\* What Evaluate does with its load of the alerts stays right while reports,
\* acknowledgements and deletions go on.  The index never refuses an insert: while
\* it has a key to fire, no alert of that key is firing (a refused insert would
\* end every later evaluation).  And when it comes to notify, every key it found
\* triggered has an open alert, as long as no node has been deleted: a deletion
\* may take it away, or hand its row identifier to another alert.
TriggeredIsOpen ==
    /\ eval = "fire" => \A k \in left : ~Conflicts(k)
    /\ eval = "notify" /\ spent.delete = 0 =>
           \A k \in triggered : \E i \in RowsOf(k) : alert[i].status # "recovered"

\* Between evaluations every firing alert has been announced, as long as no
\* statement and no send has failed.
EveryFiringIsTold ==
    eval = "idle" /\ spent.failure = 0 => \A i \in Used : alert[i].status = "firing" => alert[i].told

\* Alerts follow the conditions in spite of failures, deletions and restarts: a
\* condition that persists gets an open alert, and a firing alert whose condition
\* is gone does not stay, nor does the alert of a node that was deleted while
\* Evaluate ran.
AlertsFollow ==
    \A k \in AlertKeys :
        /\ Holds(k) ~> (~Holds(k) \/ \E i \in RowsOf(k) : alert[i].status # "recovered")
        /\ (~Holds(k) /\ Conflicts(k)) ~> (Holds(k) \/ ~Conflicts(k))
=============================================================================
