---------------------------- MODULE GeoRefresher ----------------------------
(***************************************************************************)
(* The Panel's geolocation refresher (internal/panel/geo/refresher.go):    *)
(* report handlers and the periodic reconciliation observe node rows and   *)
(* queue addresses; one worker looks them up and fans the result out.      *)
(*                                                                         *)
(* A host document is its effective address and a load that tells two      *)
(* documents with the same address apart.  A location is represented by    *)
(* the address it was looked up for.  An instant is its age against the    *)
(* refresh interval: "never" (zero), "fresh" or "stale".                   *)
(***************************************************************************)
EXTENDS Integers, Sequences, FiniteSets

CONSTANTS
    Nodes,          \* node rows
    Handlers,       \* goroutines of handleReport
    PublicIPs,      \* addresses eligible for a lookup
    OtherIPs,       \* non-public effective addresses
    Loads,          \* what else may differ between two host documents
    Nameless,       \* addresses whose place the provider does not name
    Capacity,       \* capacity of the queue (refreshQueueCapacity, 128)
    MaxReports,     \* bound: reports received
    MaxMishaps      \* bound: failed statements, refused lookups, refresh
                    \* intervals that pass, Panel restarts

ASSUME CapacityAssumption ==
    Capacity \in Nat \ {0} /\ MaxReports \in Nat /\ MaxMishaps \in Nat

VARIABLES
    row,         \* nodes: last_host_json and the ip_geo columns
    cache,       \* ip_geo_cache
    queue,       \* r.queue
    pending,     \* r.pending
    processing,  \* r.processing
    dirty,       \* r.dirty
    obs,         \* where each observer is: a handler or the reconciliation
    todo,        \* host documents Reconcile has loaded and not yet observed
    worker,      \* where Run is
    deferred,    \* history: addresses dropped because the queue was full, or
                 \* with the process, and not queued again since
    spent        \* how much of each bound is used up

geoVars == <<row, cache, queue, pending, processing, dirty, obs, todo, worker,
             deferred, spent>>

-----------------------------------------------------------------------------
NoIP == "no address"
NoLocation == "no location"
Internal == "internal"
IPs == PublicIPs \cup OtherIPs \cup {NoIP}

ASSUME AddressAssumption ==
    /\ Nameless \subseteq PublicIPs
    /\ PublicIPs \cap (OtherIPs \cup {NoIP, NoLocation, Internal}) = {}

Hosts == [ip: IPs, load: Loads]
NoHost == [ip |-> NoIP, load |-> "no report"]
Ages == {"never", "fresh", "stale"}

\* The reconciliation observes nodes one after the other, like a handler.
Reconciler == "reconciler"
Observers == Handlers \cup {Reconciler}

Rows == [host: Hosts \cup {NoHost}, geo: IPs,
         loc: PublicIPs \cup {NoLocation, Internal}, at: Ages]
CacheEntries == [loc: PublicIPs \cup {NoLocation}, at: Ages,
                 failed: BOOLEAN, retry: BOOLEAN]
NoRow == [host |-> NoHost, geo |-> NoIP, loc |-> NoLocation, at |-> "never"]
NoEntry == [loc |-> NoLocation, at |-> "never", failed |-> FALSE, retry |-> FALSE]

Idle == [pc |-> "idle", ip |-> NoIP]
NoNode == "no node"
AtRest == [pc |-> "idle", node |-> NoNode, host |-> NoHost]
Budgets == [report |-> MaxReports, mishap |-> MaxMishaps]

\* One unit of a bound is used.
Spend(kind) ==
    /\ spent[kind] < Budgets[kind]
    /\ spent' = [spent EXCEPT ![kind] = @ + 1]

GeoInit ==
    /\ row = [n \in Nodes |-> NoRow]
    /\ cache = [ip \in PublicIPs |-> NoEntry]
    /\ queue = <<>>
    /\ pending = {} /\ processing = {} /\ dirty = {} /\ deferred = {}
    /\ obs = [t \in Observers |-> AtRest]
    /\ todo = [n \in {} |-> NoHost]
    /\ worker = Idle
    /\ spent = [kind \in DOMAIN Budgets |-> 0]

-----------------------------------------------------------------------------
(* Observing a node.                                                       *)

\* handleReport commits the node row, then calls ObserveNode.
Report(t, n, host) ==
    /\ obs[t].pc = "idle"
    /\ Spend("report")
    /\ row' = [row EXCEPT ![n].host = host]
    /\ obs' = [obs EXCEPT ![t] = [pc |-> "observe", node |-> n, host |-> host]]
    /\ UNCHANGED <<cache, queue, pending, processing, dirty, todo, worker, deferred>>

\* The WHERE clause: the row still holds the document that is observed.
Current(t) == row[obs[t].node].host = obs[t].host

\* The SET clauses, by kind of address.
Observed(r, ip) ==
    IF ip = NoIP THEN [r EXCEPT !.geo = ip, !.loc = NoLocation, !.at = "never"]
    ELSE IF ip \in OtherIPs
         THEN [r EXCEPT !.geo = ip, !.loc = Internal, !.at = "fresh"]
    ELSE IF r.geo = ip THEN r
    ELSE [r EXCEPT !.geo = ip, !.loc = NoLocation, !.at = "never"]

NeedsLookup(r) == r.loc = NoLocation \/ r.at # "fresh"

Observe(t) ==
    LET n == obs[t].node
        ip == obs[t].host.ip
        r == Observed(row[n], ip)
    IN  /\ obs[t].pc = "observe"
        /\ row' = IF Current(t) THEN [row EXCEPT ![n] = r] ELSE row
        /\ obs' = IF Current(t) /\ ip \in PublicIPs /\ NeedsLookup(r)
                  THEN [obs EXCEPT ![t].pc = "enqueue"]
                  ELSE [obs EXCEPT ![t] = AtRest]
        /\ UNCHANGED <<cache, queue, pending, processing, dirty, todo, worker,
                       deferred, spent>>

\* The statement fails: the handler logs it, Reconcile gives up the rest.
ObserveFails(t) ==
    /\ obs[t].pc = "observe"
    /\ Spend("mishap")
    /\ obs' = [obs EXCEPT ![t] = AtRest]
    /\ todo' = IF t = Reconciler THEN [n \in {} |-> NoHost] ELSE todo
    /\ UNCHANGED <<row, cache, queue, pending, processing, dirty, worker, deferred>>

\* The select with a default: the address is queued, or dropped when full.
Offer(ip) ==
    IF Len(queue) < Capacity
    THEN /\ queue' = Append(queue, ip)
         /\ pending' = pending \cup {ip}
         /\ deferred' = deferred \ {ip}
    ELSE /\ queue' = queue
         /\ pending' = pending \ {ip}
         /\ deferred' = deferred \cup {ip}

AlreadyPending(ip) == ip \in pending

\* enqueue, under r.mu.
Enqueue(t) ==
    LET ip == obs[t].host.ip IN
    /\ obs[t].pc = "enqueue"
    /\ obs' = [obs EXCEPT ![t] = AtRest]
    /\ IF AlreadyPending(ip)
       THEN /\ dirty' = IF ip \in processing THEN dirty \cup {ip} ELSE dirty
            /\ UNCHANGED <<queue, pending, deferred>>
       ELSE Offer(ip) /\ dirty' = dirty
    /\ UNCHANGED <<row, cache, processing, todo, worker, spent>>

\* Mutant: only rows without a location are loaded.
ReportedUnlocated(n) == row[n].host # NoHost /\ row[n].loc = NoLocation

\* A row exists once its node has reported.
Reported(n) == row[n].host # NoHost

\* Reconcile loads every row, at start and at each tick of its timer.
ReconcileLoad ==
    /\ obs[Reconciler].pc = "idle"
    /\ DOMAIN todo = {}
    /\ todo' = [n \in {m \in Nodes : Reported(m)} |-> row[n].host]
    /\ UNCHANGED <<row, cache, queue, pending, processing, dirty, obs, worker,
                   deferred, spent>>

\* It observes what it loaded, which may be older than the row by now.
ReconcileNext ==
    /\ obs[Reconciler].pc = "idle"
    /\ \E n \in DOMAIN todo :
         /\ obs' = [obs EXCEPT ![Reconciler] =
                       [pc |-> "observe", node |-> n, host |-> todo[n]]]
         /\ todo' = [m \in DOMAIN todo \ {n} |-> todo[m]]
    /\ UNCHANGED <<row, cache, queue, pending, processing, dirty, worker,
                   deferred, spent>>

-----------------------------------------------------------------------------
(* The worker: Run, refreshOne and finishProcessing.                       *)

\* ip := <-r.queue
Take ==
    /\ worker.pc = "idle" /\ queue # <<>>
    /\ worker' = [pc |-> "taken", ip |-> Head(queue)]
    /\ queue' = Tail(queue)
    /\ UNCHANGED <<row, cache, pending, processing, dirty, obs, todo, deferred, spent>>

MarkProcessing ==
    /\ worker.pc = "taken"
    /\ processing' = processing \cup {worker.ip}
    /\ worker' = [worker EXCEPT !.pc = "read"]
    /\ UNCHANGED <<row, cache, queue, pending, dirty, obs, todo, deferred, spent>>

WorkerAt(pc, next) ==
    /\ worker.pc = pc
    /\ worker' = [worker EXCEPT !.pc = next]

\* Where refreshOne goes once a cached location, if any, has been applied.
AfterCache(entry) == IF entry.at = "fresh" \/ entry.retry THEN "finish" ELSE "lookup"

ReadCache ==
    LET entry == cache[worker.ip] IN
    /\ WorkerAt("read", IF entry.at = "never" THEN AfterCache(entry)
                        ELSE IF AfterCache(entry) = "finish" THEN "apply"
                        ELSE "apply and look up")
    /\ UNCHANGED <<row, cache, queue, pending, processing, dirty, obs, todo,
                   deferred, spent>>

\* Mutant: the rows that report the address, whatever ip_geo_ip says.
AffectedByReport(ip) == {n \in Nodes : row[n].host.ip = ip}

\* The rows an UPDATE ... WHERE ip_geo_ip=? reaches.
Affected(ip) == {n \in Nodes : row[n].geo = ip}

\* applyLocation.
Apply ==
    LET entry == cache[worker.ip] IN
    /\ \/ WorkerAt("apply", "finish")
       \/ WorkerAt("apply and look up", "lookup")
    /\ row' = [n \in Nodes |->
                 IF n \in Affected(worker.ip)
                 THEN [row[n] EXCEPT !.loc = entry.loc, !.at = entry.at]
                 ELSE row[n]]
    /\ UNCHANGED <<cache, queue, pending, processing, dirty, obs, todo, deferred, spent>>

\* Format of the provider's answer, which may hold no name at all.
Located(ip) == IF ip \in Nameless THEN NoLocation ELSE ip

\* The provider answers, and the answer is stored.
Lookup ==
    /\ WorkerAt("lookup", "apply")
    /\ cache' = [cache EXCEPT ![worker.ip] =
                    [loc |-> Located(worker.ip), at |-> "fresh",
                     failed |-> FALSE, retry |-> FALSE]]
    /\ UNCHANGED <<row, queue, pending, processing, dirty, obs, todo, deferred, spent>>

\* The provider refuses or times out: persistFailure keeps what was known.
LookupFails ==
    /\ WorkerAt("lookup", "finish")
    /\ Spend("mishap")
    /\ cache' = [cache EXCEPT ![worker.ip].failed = TRUE, ![worker.ip].retry = TRUE]
    /\ UNCHANGED <<row, queue, pending, processing, dirty, obs, todo, deferred>>

\* A statement of refreshOne fails; Run logs it and goes on.
RefreshFails ==
    /\ worker.pc \in {"read", "apply", "apply and look up", "lookup"}
    /\ Spend("mishap")
    /\ worker' = [worker EXCEPT !.pc = "finish"]
    /\ deferred' = deferred \cup {worker.ip}
    /\ UNCHANGED <<row, cache, queue, pending, processing, dirty, obs, todo>>

\* Mutant: the dirty mark is dropped with the others.
RerunNever(ip) == FALSE

Rerun(ip) == ip \in dirty

\* finishProcessing, under r.mu.
Finish ==
    LET ip == worker.ip IN
    /\ worker.pc = "finish"
    /\ worker' = Idle
    /\ processing' = processing \ {ip}
    /\ dirty' = dirty \ {ip}
    /\ IF Rerun(ip) THEN Offer(ip)
       ELSE /\ pending' = pending \ {ip}
            /\ UNCHANGED <<queue, deferred>>
    /\ UNCHANGED <<row, cache, obs, todo, spent>>

-----------------------------------------------------------------------------
(* The environment.                                                        *)

\* The refresh interval has passed since ip was looked up: the cache entry
\* and the rows that carry its time are stale.
Expire(ip) ==
    /\ cache[ip].at = "fresh"
    /\ Spend("mishap")
    /\ cache' = [cache EXCEPT ![ip].at = "stale"]
    /\ row' = [n \in Nodes |-> IF n \in Affected(ip) /\ row[n].at = "fresh"
                               THEN [row[n] EXCEPT !.at = "stale"] ELSE row[n]]
    /\ UNCHANGED <<queue, pending, processing, dirty, obs, todo, worker, deferred>>

\* retry_at has passed.
RetryElapses(ip) ==
    /\ cache[ip].retry
    /\ cache' = [cache EXCEPT ![ip].retry = FALSE]
    /\ UNCHANGED <<row, queue, pending, processing, dirty, obs, todo, worker,
                   deferred, spent>>

\* Only the database survives; addresses that were waiting are lost.
Restart ==
    /\ Spend("mishap")
    /\ queue' = <<>>
    /\ pending' = {} /\ processing' = {} /\ dirty' = {}
    /\ obs' = [t \in Observers |-> AtRest]
    /\ todo' = [n \in {} |-> NoHost]
    /\ worker' = Idle
    /\ deferred' = PublicIPs
    /\ UNCHANGED <<row, cache>>

Work == \/ Take \/ MarkProcessing \/ ReadCache \/ Apply \/ Lookup
        \/ LookupFails \/ RefreshFails \/ Finish

GeoNext ==
    \/ \E t \in Handlers, n \in Nodes, host \in Hosts : Report(t, n, host)
    \/ \E t \in Observers : Observe(t) \/ ObserveFails(t) \/ Enqueue(t)
    \/ ReconcileLoad \/ ReconcileNext
    \/ Work
    \/ \E ip \in PublicIPs : Expire(ip) \/ RetryElapses(ip)
    \/ Restart

GeoSpec == GeoInit /\ [][GeoNext]_geoVars

\* Goroutines run, Reconcile's ticker ticks, retry times pass, and a provider
\* that is asked again and again answers once its refusals are used up.
GeoFairSpec ==
    /\ GeoSpec
    /\ \A t \in Observers : WF_geoVars(Observe(t) \/ Enqueue(t))
    /\ WF_geoVars(ReconcileLoad)
    /\ WF_geoVars(ReconcileNext)
    /\ WF_geoVars(Work)
    /\ \A ip \in PublicIPs : WF_geoVars(RetryElapses(ip))

-----------------------------------------------------------------------------
(* Properties.                                                             *)

\* Every variable has its type and the queue keeps its capacity.
GeoTypeOK ==
    /\ row \in [Nodes -> Rows]
    /\ cache \in [PublicIPs -> CacheEntries]
    /\ queue \in Seq(PublicIPs) /\ Len(queue) <= Capacity
    /\ pending \subseteq PublicIPs /\ processing \subseteq PublicIPs
    /\ dirty \subseteq PublicIPs /\ deferred \subseteq PublicIPs
    /\ obs \in [Observers -> [pc: {"idle", "observe", "enqueue"}, node: Nodes \cup {NoNode},
                              host: Hosts \cup {NoHost}]]
    /\ DOMAIN todo \subseteq Nodes
    /\ \A n \in DOMAIN todo : todo[n] \in Hosts
    /\ worker \in [pc: {"idle", "taken", "read", "apply", "apply and look up",
                        "lookup", "finish"}, ip: PublicIPs \cup {NoIP}]
    /\ spent \in [DOMAIN Budgets -> Nat]

\* A slow answer for an old address never becomes the location of a newer
\* one: what a row shows was looked up for its own ip_geo_ip.
LocationIsOfItsAddress ==
    \A n \in Nodes : row[n].loc \in PublicIPs => row[n].loc = row[n].geo

\* Nothing that was observed is forgotten.  A row without a location has its
\* address waiting, about to be enqueued, refused by the provider, or dropped by a
\* logged failure, also when it was observed while the address was being looked
\* up.  And in whatever order reports and the reconciliation observe one node,
\* ip_geo_ip is the address of its row unless that is still to be observed (until
\* a statement fails or the Panel restarts).
NoLostRefresh ==
    \A n \in Nodes :
        LET ip == row[n].geo IN
        /\ (ip \in PublicIPs /\ row[n].at = "never") =>
               \/ ip \in pending \cup deferred
               \/ cache[ip].failed
               \/ \E t \in Observers : obs[t].pc = "enqueue" /\ obs[t].host.ip = ip
        /\ spent.mishap = 0 =>
               \/ ip = row[n].host.ip
               \/ \E t \in Handlers : /\ obs[t].pc = "observe"
                                      /\ obs[t].node = n /\ obs[t].host = row[n].host

\* A full queue, a refusal, a failed statement or a restart only delays: ip_geo_ip
\* comes to agree with the report of its row, and a row waiting for its first
\* lookup gets an answer, or another address.
MissedIsRepaired ==
    \A n \in Nodes :
        /\ (row[n].geo # row[n].host.ip) ~> (row[n].geo = row[n].host.ip)
        /\ \A ip \in PublicIPs :
               (row[n].geo = ip /\ row[n].at = "never")
                   ~> (row[n].geo # ip \/ row[n].at # "never")
=============================================================================
