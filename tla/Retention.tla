----------------------------- MODULE Retention -----------------------------
(***************************************************************************)
(* How the Panel thins out its metrics (internal/panel/retention/          *)
(* retention.go): every hour raw samples past raw_days become hourly       *)
(* averages, hourly ones past hourly_days become daily ones, and daily     *)
(* ones past daily_days go.  The five statements of a run are separate     *)
(* transactions; reports (internal/panel/api/report.go) are stored between *)
(* them, with the time they came at.                                       *)
(*                                                                         *)
(* An average is abstracted to the set of the samples it is made of.  When *)
(* a run begins is left open: the ticker of main.go fires every hour.      *)
(***************************************************************************)
EXTENDS Integers, Bags, FiniteSetsExt

CONSTANTS
    Reporters,    \* the nodes that report
    Hour, Day,    \* their length in ticks of the model
    DaysInForce,  \* what raw_days, hourly_days and daily_days can be set to
    StoreWithin,  \* bound on the ticks from the arrival of a report to its commit
    MaxTime,      \* bound on the time
    MaxSamples,   \* bound on the reports
    MaxFailures   \* bound on the runs that fail

ASSUME RetentionAssumption ==
    /\ Hour \in Nat \ {0} /\ Day \in Nat \ {0} /\ Day % Hour = 0
    /\ DaysInForce \subseteq [raw : Int, hourly : Int, daily : Int]
    /\ StoreWithin \in 1 .. Day
    /\ MaxTime \in Nat /\ MaxSamples \in Nat /\ MaxFailures \in Nat

VARIABLES
    now,      \* the time
    rows,     \* the rows of metrics, a bag: node, ts, granularity, samples in it
    arrived,  \* the reports that are not committed yet
    samples,  \* the number of reports so far
    run,      \* the call of Aggregate: next statement, its time and its days
    failures, \* the number of runs that failed
    doubled   \* history: whether a deletion failed after the insertion before it

retentionVars == <<now, rows, arrived, samples, run, failures, doubled>>

-----------------------------------------------------------------------------
NoRun == [pc |-> "idle", now |-> 0, days |-> [raw |-> 0, hourly |-> 0, daily |-> 0]]

\* The cutoff of a granularity, from the time Aggregate took when it began.
Cutoff(granularity) == run.now - run.days[granularity] * Day

\* (ts / bucket) * bucket.
Floor(ts, bucket) == (ts \div bucket) * bucket

Old(granularity) ==
    {r \in DOMAIN rows : r.granularity = granularity /\ r.ts < Cutoff(granularity)}

\* Mutant: the row at the cutoff is averaged too, and not deleted.
OldOrAtCutoff(granularity) ==
    {r \in DOMAIN rows : r.granularity = granularity /\ r.ts <= Cutoff(granularity)}

\* The rows insertAggregate averages.
Averaged(source) == Old(source)

\* insertAggregate: one row for each node and bucket.
Averages(target, source, bucket) ==
    LET olds == Averaged(source)
        Key(r) == <<r.node, Floor(r.ts, bucket)>>
    IN  {[node |-> k[1], ts |-> k[2], granularity |-> target,
          of |-> UNION {r.of : r \in {o \in olds : Key(o) = k}}] : k \in {Key(r) : r \in olds}}

\* The bag without all copies of some of its rows.
Except(gone) == [r \in DOMAIN rows \ gone |-> rows[r]]

RetentionInit ==
    /\ now = 0
    /\ rows = EmptyBag
    /\ arrived = {}
    /\ samples = 0
    /\ run = NoRun
    /\ failures = 0 /\ doubled = FALSE

-----------------------------------------------------------------------------
\* A statement does not wait for a report longer than StoreWithin, nor the other
\* way round (busy_timeout, db.go).
Elapse ==
    /\ now < MaxTime
    /\ \A s \in arrived : now - s.ts < StoreWithin
    /\ now' = now + 1
    /\ UNCHANGED <<rows, arrived, samples, run, failures, doubled>>

\* handleReport takes the time, and opens its transaction.
ReportArrives(n) ==
    /\ samples < MaxSamples
    /\ samples' = samples + 1
    /\ [node |-> n, ts |-> now] \notin arrived \cup UNION {r.of : r \in DOMAIN rows}
    /\ arrived' = arrived \cup {[node |-> n, ts |-> now]}
    /\ UNCHANGED <<now, rows, run, failures, doubled>>

StoreReport(s) ==
    /\ arrived' = arrived \ {s}
    /\ rows' = rows (+) SetToBag({[node |-> s.node, ts |-> s.ts, granularity |-> "raw", of |-> {s}]})
    /\ UNCHANGED <<now, samples, run, failures, doubled>>

\* The transaction is rolled back, or the Panel ends.
LoseReport(s) ==
    /\ arrived' = arrived \ {s}
    /\ UNCHANGED <<now, rows, samples, run, failures, doubled>>

-----------------------------------------------------------------------------
(* Aggregate *)

Begin ==
    /\ run.pc = "idle"
    /\ \E d \in DaysInForce : run' = [pc |-> "insert_hourly", now |-> now, days |-> d]
    /\ UNCHANGED <<now, rows, arrived, samples, failures, doubled>>

Insert(pc, target, source, bucket, next) ==
    /\ run.pc = pc
    /\ rows' = rows (+) SetToBag(Averages(target, source, bucket))
    /\ run' = [run EXCEPT !.pc = next]
    /\ UNCHANGED <<now, arrived, samples, failures, doubled>>

InsertHourly == Insert("insert_hourly", "hourly", "raw", Hour, "delete_raw")
InsertDaily == Insert("insert_daily", "daily", "hourly", Day, "delete_hourly")

\* Mutant: the cutoff is taken anew, from the time of the statement.
OldByNow(granularity) ==
    {r \in DOMAIN rows : r.granularity = granularity /\ r.ts < now - run.days[granularity] * Day}

\* The rows a DELETE is for.
Deleted(granularity) == Old(granularity)

Delete(pc, granularity, after) ==
    /\ run.pc = pc
    /\ rows' = Except(Deleted(granularity))
    /\ run' = after
    /\ UNCHANGED <<now, arrived, samples, failures, doubled>>

DeleteRaw == Delete("delete_raw", "raw", [run EXCEPT !.pc = "insert_daily"])
DeleteHourly == Delete("delete_hourly", "hourly", [run EXCEPT !.pc = "delete_daily"])
DeleteDaily == Delete("delete_daily", "daily", NoRun)

\* A statement fails, or the Panel is killed before it: the run ends, and nothing
\* it did is undone.
RunFails ==
    /\ run.pc # "idle"
    /\ failures < MaxFailures
    /\ failures' = failures + 1
    /\ run' = NoRun
    /\ doubled' = (doubled \/ run.pc \in {"delete_raw", "delete_hourly"})
    /\ UNCHANGED <<now, rows, arrived, samples>>

RetentionNext ==
    \/ Elapse
    \/ \E n \in Reporters : ReportArrives(n)
    \/ \E s \in arrived : StoreReport(s) \/ LoseReport(s)
    \/ Begin \/ InsertHourly \/ DeleteRaw \/ InsertDaily \/ DeleteHourly \/ DeleteDaily
    \/ RunFails

RetentionSpec == RetentionInit /\ [][RetentionNext]_retentionVars

-----------------------------------------------------------------------------
Sample == [node : Reporters, ts : 0 .. MaxTime]

\* Type correctness: an average is stamped with the start of its bucket.
RetentionTypeOK ==
    /\ IsABag(rows)
    /\ \A r \in DOMAIN rows :
          /\ r.of # {} /\ r.of \subseteq Sample
          /\ \A s \in r.of : s.node = r.node
          /\ r.ts \in CASE r.granularity = "raw" -> {s.ts : s \in r.of}
                        [] r.granularity = "hourly" -> {Floor(s.ts, Hour) : s \in r.of}
                        [] r.granularity = "daily" -> {Floor(s.ts, Day) : s \in r.of}
    /\ arrived \subseteq Sample
    /\ now \in 0 .. MaxTime /\ samples \in 0 .. MaxSamples /\ failures \in 0 .. MaxFailures

Stored == UNION {r.of : r \in DOMAIN rows}

\* How many rows a sample is counted in.
Copies(s) == MapThenSumSet(LAMBDA r : rows[r], {r \in DOMAIN rows : s \in r.of})

\* A sample that was stored stays, in a row of some granularity, until the day it
\* belongs to is past daily_days: whatever is stored between the statements of a
\* run, wherever the run fails and whatever the days are set to, provided raw_days
\* is not 0 or less, for then a report can be stored under the cutoff after the
\* averages are made.
SamplesAreKept ==
    [][\A s \in Stored :
          s \notin Stored' => \/ Floor(s.ts, Day) < Cutoff("daily")
                              \/ run.days.raw < 1]_retentionVars

\* Between two runs every sample is counted once, unless a deletion failed.
CountedOnce == run.pc = "idle" /\ ~doubled => \A s \in Stored : Copies(s) = 1
=============================================================================
