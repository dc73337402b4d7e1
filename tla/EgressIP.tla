------------------------------ MODULE EgressIP ------------------------------
(***************************************************************************)
(* Discovery of a host's public addresses: Resolver.Resolve and the cache  *)
(* file it keeps (internal/egressip), with its failure count and back-off  *)
(* (internal/retrybackoff), as every collection calls it (buildWithEgress  *)
(* in internal/agent/run.go).  The resident Agent collects one report at a *)
(* time; `net-probe --once`, --check and --preflight are further processes *)
(* that use the same file.                                                 *)
(*                                                                         *)
(* A call lasts seconds, the times in the cache are minutes and hours: an  *)
(* entry ages between two calls, never during one.                         *)
(***************************************************************************)
EXTENDS Naturals, FiniteSets

CONSTANTS
    Processes,     \* the processes that may call Resolve at the same time
    Families,      \* IPv4 and IPv6
    Addresses,     \* the public addresses a family may have
    MaxFailure,    \* cap of failure_count (32 in the code)
    MaxMoves,      \* bound on the changes of the host's addresses
    MaxTroubles,   \* bound on failing discoveries
    EgressFaults   \* what else may happen, of: write, damage, reload

ASSUME EgressAssumption ==
    /\ MaxFailure \in Nat \ {0} /\ MaxMoves \in Nat /\ MaxTroubles \in Nat
    /\ EgressFaults \subseteq {"write", "damage", "reload"}
    /\ "none" \notin Addresses

VARIABLES
    cacheFile,  \* the cache file: one entry per family
    call,       \* the calls of Resolve under way
    reported,   \* what the latest report says, per family
    served,     \* the families whose list of endpoints is not empty
    actual,     \* the address the host really has, per family
    moves, troubles   \* how much of the two bounds is used up

egressVars == <<cacheFile, call, reported, served, actual, moves, troubles>>

-----------------------------------------------------------------------------
\* at: since the last success, the refresh interval has passed or not.
\* retry: retry_at lies ahead.
Entries == [addr: Addresses \cup {"none"}, at: {"never", "fresh", "old"},
            failures: 0..MaxFailure, retry: BOOLEAN]
NoEntry == [addr |-> "none", at |-> "never", failures |-> 0, retry |-> FALSE]
EmptyCache == [f \in Families |-> NoEntry]

\* A call has read the cache; pending are the families it is asking for.
Calls == [pc: {"idle", "ask"}, cache: [Families -> Entries], pending: SUBSET Families,
          dirty: BOOLEAN, result: [Families -> Addresses \cup {"none"}]]
AtRest == [pc |-> "idle", cache |-> EmptyCache, pending |-> {}, dirty |-> FALSE,
           result |-> [f \in Families |-> "none"]]

EgressInit ==
    /\ cacheFile = EmptyCache
    /\ call = [p \in Processes |-> AtRest]
    /\ reported = [f \in Families |-> "none"]
    /\ served = Families
    /\ actual \in [Families -> Addresses]
    /\ moves = 0 /\ troubles = 0

\* Mutant: an entry that failed is not asked for again.
NeedsRefreshOnce(e) == e.failures = 0 /\ (e.addr = "none" \/ e.at # "fresh")

NeedsRefresh(e) == ~e.retry /\ (e.addr = "none" \/ e.at # "fresh")

\* A family is asked for when it is due, and known or served at all.
Pending(cache) ==
    {f \in Families : NeedsRefresh(cache[f]) /\ (cache[f].addr # "none" \/ f \in served)}

\* readCache, and what to ask for.  Missing, damaged and oversized files read
\* as the empty cache.
Begin(p) ==
    /\ call[p].pc = "idle"
    /\ call' = [call EXCEPT ![p] =
                  [pc |-> "ask", cache |-> cacheFile, pending |-> Pending(cacheFile), dirty |-> FALSE,
                   result |-> [f \in Families |-> cacheFile[f].addr]]]
    /\ UNCHANGED <<cacheFile, reported, served, actual, moves, troubles>>

\* One of the endpoints gives a public address of the family.
Answered(p, f) ==
    /\ call[p].pc = "ask"
    /\ f \in call[p].pending \cap served
    /\ call' = [call EXCEPT ![p].pending = @ \ {f}, ![p].dirty = TRUE,
                            ![p].result[f] = actual[f],
                            ![p].cache[f] = [addr |-> actual[f], at |-> "fresh",
                                             failures |-> 0, retry |-> FALSE]]
    /\ UNCHANGED <<cacheFile, reported, served, actual, moves, troubles>>

\* Mutant: a failure makes a new entry, as a success does.
FailedEntryAnew(e) == [NoEntry EXCEPT !.failures = 1, !.retry = TRUE]

\* The entry after a failure: what was known stays.
FailedEntry(e) ==
    [e EXCEPT !.failures = IF @ < MaxFailure THEN @ + 1 ELSE @, !.retry = TRUE]

\* All endpoints fail: unreachable, timeout, not an address, wrong family, not
\* public.  Without endpoints there is nothing else.
Unanswered(p, f) ==
    /\ call[p].pc = "ask"
    /\ f \in call[p].pending
    /\ f \in served => troubles < MaxTroubles
    /\ troubles' = IF f \in served THEN troubles + 1 ELSE troubles
    /\ call' = [call EXCEPT ![p].pending = @ \ {f}, ![p].dirty = TRUE,
                            ![p].cache[f] = FailedEntry(@)]
    /\ UNCHANGED <<cacheFile, reported, served, actual, moves>>

\* All families are through: writeCache replaces the whole file, or fails and
\* is only logged; the result goes into the report.
Finish(p) ==
    /\ call[p].pc = "ask"
    /\ call[p].pending = {}
    /\ \/ cacheFile' = IF call[p].dirty THEN call[p].cache ELSE cacheFile
       \/ "write" \in EgressFaults /\ UNCHANGED cacheFile
    /\ reported' = call[p].result
    /\ call' = [call EXCEPT ![p] = AtRest]
    /\ UNCHANGED <<served, actual, moves, troubles>>

-----------------------------------------------------------------------------
(* The environment *)

Quiet == \A p \in Processes : call[p].pc = "idle"

\* refresh_interval passes since a success.
Ages(f) ==
    /\ Quiet
    /\ cacheFile[f].at = "fresh"
    /\ cacheFile' = [cacheFile EXCEPT ![f].at = "old"]
    /\ UNCHANGED <<call, reported, served, actual, moves, troubles>>

\* retry_at passes.
RetryPasses(f) ==
    /\ Quiet
    /\ cacheFile[f].retry
    /\ cacheFile' = [cacheFile EXCEPT ![f].retry = FALSE]
    /\ UNCHANGED <<call, reported, served, actual, moves, troubles>>

\* The host gets another address.
Moves(f) ==
    /\ moves < MaxMoves
    /\ moves' = moves + 1
    /\ \E a \in Addresses : actual' = [actual EXCEPT ![f] = a]
    /\ UNCHANGED <<cacheFile, call, reported, served, troubles>>

\* The file becomes unreadable.
FileDamaged ==
    /\ "damage" \in EgressFaults
    /\ cacheFile' = EmptyCache
    /\ UNCHANGED <<call, reported, served, actual, moves, troubles>>

\* A reloaded configuration lists no endpoints for a family.
Unserve(f) ==
    /\ "reload" \in EgressFaults
    /\ Quiet
    /\ served' = served \ {f}
    /\ UNCHANGED <<cacheFile, call, reported, actual, moves, troubles>>

-----------------------------------------------------------------------------
Resolve(p) ==
    \/ Begin(p)
    \/ \E f \in Families : Answered(p, f) \/ Unanswered(p, f)
    \/ Finish(p)

EgressNext ==
    \/ \E p \in Processes : Resolve(p)
    \/ \E f \in Families : Ages(f) \/ RetryPasses(f) \/ Moves(f) \/ Unserve(f)
    \/ FileDamaged

EgressSpec == EgressInit /\ [][EgressNext]_egressVars

\* Collections go on, each call ends within its timeout, and time passes: an
\* entry that keeps being found idle ages.
EgressFairSpec ==
    /\ EgressSpec
    /\ \A p \in Processes : WF_egressVars(Resolve(p))
    /\ \A f \in Families : SF_egressVars(Ages(f)) /\ SF_egressVars(RetryPasses(f))

-----------------------------------------------------------------------------
\* Type correctness; failure_count keeps its cap.
EgressTypeOK ==
    /\ cacheFile \in [Families -> Entries]
    /\ call \in [Processes -> Calls]
    /\ reported \in [Families -> Addresses \cup {"none"}]
    /\ served \subseteq Families
    /\ actual \in [Families -> Addresses]
    /\ moves \in 0..MaxMoves /\ troubles \in 0..MaxTroubles

\* "If refresh fails, report the last validated cached value": an address that
\* was written to the cache is replaced by another one or stays, through
\* failures of either family and whatever order the two answers come in.
KnownIsKept ==
    [][~FileDamaged => \A f \in Families : cacheFile[f].addr # "none" => cacheFile'[f].addr # "none"]_egressVars

\* Once the host's addresses stay and discovery works again, the reports of a
\* served family are right for good: no back-off, full failure count, damaged
\* file or failing write of the cache keeps Resolve from asking again.
ReportsCatchUp == <>[](\A f \in Families : f \in served => reported[f] = actual[f])
=============================================================================
