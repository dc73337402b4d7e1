------------------------------ MODULE NodeData ------------------------------
(***************************************************************************)
(* What the Panel keeps about a node: its row, its tags, its metrics and   *)
(* its alerts, as reports (internal/panel/api/report.go), the alert        *)
(* evaluation and the administrators' requests (internal/panel/api/        *)
(* admin.go) write them.  A report is one transaction; the requests run    *)
(* statement by statement, each its own transaction, and several at once.  *)
(*                                                                         *)
(* node_tags holds the integer keys of its node and its tag, without a     *)
(* foreign key.  A new row's key is one more than the largest of its table *)
(* (INTEGER PRIMARY KEY, db.go), so the key of a deleted row comes back.   *)
(***************************************************************************)
EXTENDS Naturals, FiniteSets, FiniteSetsExt

CONSTANTS
    NodeNames,   \* the node IDs that report
    TagNames,    \* the names of tags
    Handlers,    \* bound on the requests served at the same time
    MaxRequests  \* bound on the requests

ASSUME NodeDataAssumption == MaxRequests \in Nat /\ "none" \notin NodeNames

VARIABLES
    nodes,      \* of each node ID, the key of its row of nodes, 0 without one
    tags,       \* of each name, the key of its row of tags, 0 without one
    nodeTags,   \* the rows of node_tags
    metrics,    \* the node IDs with rows in metrics
    alerts,     \* the node IDs with rows in alerts
    handler,    \* the requests being served
    requests,   \* the number of requests so far
    overtaken   \* history: whether a request met another one on the same node or tag,
                \* or a node that was being deleted got a report or an alert

rowVars == <<nodes, tags, nodeTags, metrics, alerts>>
nodeDataVars == <<rowVars, handler, requests, overtaken>>

-----------------------------------------------------------------------------
KeysOf(table) == {table[r] : r \in DOMAIN table} \ {0}
NextKey(table) == IF KeysOf(table) = {} THEN 1 ELSE Max(KeysOf(table)) + 1
Upsert(table, r) == IF table[r] = 0 THEN [table EXCEPT ![r] = NextKey(table)] ELSE table

\* pc: the next statement; node, want: of a PATCH; key: the key of the node, or of
\* the tag in the URL; todo: the tags still to be given; tag, use: the one in hand
\* and its key.
AtEase == [pc |-> "idle", node |-> "none", want |-> {}, key |-> 0, todo |-> {}, tag |-> "none", use |-> 0]

Reached(h, pc) == handler[h].pc = pc
Goto(h, pc) == handler' = [handler EXCEPT ![h].pc = pc]

\* The handler answers, with whatever status.
Returns(h) == handler' = [handler EXCEPT ![h] = AtEase]

NodeDataInit ==
    /\ nodes = [n \in NodeNames |-> 0]
    /\ tags = [t \in TagNames |-> 0]
    /\ nodeTags = {}
    /\ metrics = {} /\ alerts = {}
    /\ handler = [h \in Handlers |-> AtEase]
    /\ requests = 0
    /\ overtaken = FALSE

-----------------------------------------------------------------------------
(* What is written about a node without a request *)

BeingDeleted(n) ==
    \E h \in Handlers : handler[h].node = n /\ handler[h].pc \in {"metrics", "alerts", "nodes"}

\* The upsert of handleReport.
NodeRow(n) == Upsert(nodes, n)

\* handleReport: one transaction, rolled back when the identity is not current.
HandleReport(n) ==
    /\ nodes' = NodeRow(n)
    /\ metrics' = metrics \cup {n}
    /\ overtaken' = (overtaken \/ BeingDeleted(n))
    /\ UNCHANGED <<tags, nodeTags, alerts, handler, requests>>

\* Evaluate (module Alerting) inserts an alert for a node it has just read.
RaiseAlert(n) ==
    /\ nodes[n] # 0
    /\ alerts' = alerts \cup {n}
    /\ overtaken' = (overtaken \/ BeingDeleted(n))
    /\ UNCHANGED <<nodes, tags, nodeTags, metrics, handler, requests>>

-----------------------------------------------------------------------------
(* The requests *)

Busy(h) == ~Reached(h, "idle")

\* A request meets another one on the same node, or on a tag the other is about.
Meets(a, b) ==
    \/ a.node = b.node /\ a.node # "none"
    \/ a.pc = "tag_uses" /\ b.pc \in {"tag_uses", "tag"} /\ a.key = b.key
    \/ a.pc = "tag_uses" /\ \E t \in b.want : tags[t] = a.key
    \/ b.pc \in {"tag_uses", "tag"} /\ \E t \in a.want : tags[t] = b.key

Receive(h, start) ==
    /\ Reached(h, "idle")
    /\ requests < MaxRequests
    /\ requests' = requests + 1
    /\ handler' = [handler EXCEPT ![h] = start]
    /\ overtaken' = (overtaken \/ \E g \in Handlers : Busy(g) /\ Meets(start, handler[g]))
    /\ UNCHANGED rowVars

PatchNode(h, n, want) ==
    Receive(h, [AtEase EXCEPT !.pc = "find_node", !.node = n, !.want = want, !.todo = want])

DeleteNode(h, n) == Receive(h, [AtEase EXCEPT !.pc = "node_tags", !.node = n])

\* Of a tag the administrator was shown.
DeleteTag(h, t) ==
    /\ tags[t] # 0
    /\ Receive(h, [AtEase EXCEPT !.pc = "tag_uses", !.key = tags[t]])

\* handleTagCreate: a single statement.
CreateTag(t) ==
    /\ tags' = Upsert(tags, t)
    /\ UNCHANGED <<nodes, nodeTags, metrics, alerts, handler, requests, overtaken>>

\* A statement fails, the database being busy too long: the answer is 500.
StatementFails(h) ==
    /\ handler[h].pc \notin {"idle", "done"}
    /\ Returns(h)
    /\ UNCHANGED <<rowVars, requests, overtaken>>

-----------------------------------------------------------------------------
(* syncNodeTags, of handleNodePatch *)

FindNode(h) ==
    LET k == nodes[handler[h].node]
    IN  /\ Reached(h, "find_node")
        /\ \/ k = 0 /\ Returns(h)
           \/ k # 0 /\ handler' = [handler EXCEPT ![h].key = k, ![h].pc = "clear"]
        /\ UNCHANGED <<rowVars, requests, overtaken>>

\* Mutant: the tags the node has stay.
WithoutNone(k) == nodeTags

Without(k) == {r \in nodeTags : r[1] # k}

ClearTags(h) ==
    /\ Reached(h, "clear")
    /\ nodeTags' = Without(handler[h].key)
    /\ Goto(h, "next_tag")
    /\ UNCHANGED <<nodes, tags, metrics, alerts, requests, overtaken>>

\* The tag is inserted, unless its name is there.
InsertTag(h) ==
    /\ Reached(h, "next_tag")
    /\ \E t \in handler[h].todo :
          /\ tags' = Upsert(tags, t)
          /\ handler' = [handler EXCEPT ![h].tag = t, ![h].todo = @ \ {t}, ![h].pc = "find_tag"]
    /\ UNCHANGED <<nodes, nodeTags, metrics, alerts, requests, overtaken>>

FindTag(h) ==
    LET k == tags[handler[h].tag]
    IN  /\ Reached(h, "find_tag")
        /\ \/ k = 0 /\ Returns(h)
           \/ k # 0 /\ handler' = [handler EXCEPT ![h].use = k, ![h].pc = "insert_use"]
        /\ UNCHANGED <<rowVars, requests, overtaken>>

InsertUse(h) ==
    /\ Reached(h, "insert_use")
    /\ nodeTags' = nodeTags \cup {<<handler[h].key, handler[h].use>>}
    /\ Goto(h, "next_tag")
    /\ UNCHANGED <<nodes, tags, metrics, alerts, requests, overtaken>>

\* All tags are in; handleNodePatch reads the node again and answers.
Patched(h) ==
    /\ \/ Reached(h, "next_tag") /\ handler[h].todo = {} /\ Goto(h, "done")
       \/ Reached(h, "done") /\ Returns(h)
    /\ UNCHANGED <<rowVars, requests, overtaken>>

-----------------------------------------------------------------------------
(* handleNodeDelete and handleTagDelete *)

\* Mutant: the node is found by its ID first, and its row goes first too.
RowFirst(h) ==
    LET n == handler[h].node
    IN  /\ Reached(h, "node_tags")
        /\ nodes' = [nodes EXCEPT ![n] = 0]
        /\ Goto(h, "metrics")
        /\ UNCHANGED <<tags, nodeTags, metrics, alerts, requests, overtaken>>

\* The tags go first: they are found through the row of the node.
DeleteNodeTags(h) ==
    LET n == handler[h].node
    IN  /\ Reached(h, "node_tags")
        /\ nodeTags' = {r \in nodeTags : r[1] # nodes[n]}
        /\ Goto(h, "metrics")
        /\ UNCHANGED <<nodes, tags, metrics, alerts, requests, overtaken>>

DeleteMetrics(h) ==
    /\ Reached(h, "metrics")
    /\ metrics' = metrics \ {handler[h].node}
    /\ Goto(h, "alerts")
    /\ UNCHANGED <<nodes, tags, nodeTags, alerts, requests, overtaken>>

DeleteAlertRows(h) ==
    /\ Reached(h, "alerts")
    /\ alerts' = alerts \ {handler[h].node}
    /\ Goto(h, "nodes")
    /\ UNCHANGED <<nodes, tags, nodeTags, metrics, requests, overtaken>>

DeleteNodeRow(h) ==
    /\ Reached(h, "nodes")
    /\ nodes' = [nodes EXCEPT ![handler[h].node] = 0]
    /\ Returns(h)
    /\ UNCHANGED <<tags, nodeTags, metrics, alerts, requests, overtaken>>

DeleteTagUses(h) ==
    /\ Reached(h, "tag_uses")
    /\ nodeTags' = {r \in nodeTags : r[2] # handler[h].key}
    /\ Goto(h, "tag")
    /\ UNCHANGED <<nodes, tags, metrics, alerts, requests, overtaken>>

DeleteTagRow(h) ==
    /\ Reached(h, "tag")
    /\ tags' = [t \in TagNames |-> IF tags[t] = handler[h].key THEN 0 ELSE tags[t]]
    /\ Returns(h)
    /\ UNCHANGED <<nodes, nodeTags, metrics, alerts, requests, overtaken>>

-----------------------------------------------------------------------------
HandlerStep(h) ==
    \/ FindNode(h) \/ ClearTags(h) \/ InsertTag(h) \/ FindTag(h) \/ InsertUse(h) \/ Patched(h)
    \/ DeleteNodeTags(h) \/ DeleteMetrics(h) \/ DeleteAlertRows(h) \/ DeleteNodeRow(h)
    \/ DeleteTagUses(h) \/ DeleteTagRow(h)
    \/ StatementFails(h)

NodeDataNext ==
    \/ \E n \in NodeNames : HandleReport(n) \/ RaiseAlert(n)
    \/ \E t \in TagNames : CreateTag(t)
    \/ \E h \in Handlers :
          \/ \E n \in NodeNames : DeleteNode(h, n) \/ \E want \in SUBSET TagNames : PatchNode(h, n, want)
          \/ \E t \in TagNames : DeleteTag(h, t)
          \/ HandlerStep(h)

NodeDataSpec == NodeDataInit /\ [][NodeDataNext]_nodeDataVars

-----------------------------------------------------------------------------
\* Type correctness: a key beyond the number of names takes a deletion to get at.
NodeDataTypeOK ==
    /\ nodes \in [NodeNames -> 0 .. Cardinality(NodeNames) + requests]
    /\ tags \in [TagNames -> 0 .. Cardinality(TagNames) + requests]
    /\ \A r \in nodeTags : r[1] > 0 /\ r[2] > 0
    /\ metrics \subseteq NodeNames /\ alerts \subseteq NodeNames
    /\ \A h \in Handlers : handler[h].want \subseteq TagNames /\ handler[h].todo \subseteq handler[h].want
    /\ requests \in 0 .. MaxRequests
    /\ overtaken \in BOOLEAN

\* The order of the statements makes up for the missing transaction: wherever a
\* deletion fails, no row is left that a later node, or tag, of the same key or
\* name would take for its own, whatever else is served meanwhile.  Only another
\* request on the same node or tag, or a report of the node being deleted, can
\* leave some.
NothingIsOrphaned ==
    ~overtaken =>
        /\ \A r \in nodeTags : r[1] \in KeysOf(nodes) /\ r[2] \in KeysOf(tags)
        /\ \A n \in metrics \cup alerts : nodes[n] # 0

TagsOf(n) == {t \in TagNames : <<nodes[n], tags[t]>> \in nodeTags /\ nodes[n] # 0 /\ tags[t] # 0}

\* A PATCH that is answered with 200 gave the node the tags it asked for and no
\* others, whatever earlier requests failed half-way, unless it was overtaken.
PatchIsWhole ==
    \A h \in Handlers : Reached(h, "done") /\ ~overtaken => TagsOf(handler[h].node) = handler[h].want
=============================================================================
