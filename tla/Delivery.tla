------------------------------ MODULE Delivery ------------------------------
(***************************************************************************)
(* What the Agent's outbox promises of the reports it collects: each is    *)
(* owed to every destination it was collected for, and a destination is    *)
(* crossed out only once it has accepted the report.  Before that a report *)
(* goes only because it cannot be read, or because the newer ones use up   *)
(* the limits.                                                             *)
(***************************************************************************)
EXTENDS Integers

CONSTANTS
    Reports,
    Plans,    \* the sets of destinations a report can be for
    Fitting   \* the sets of reports that are within the limits of the outbox

VARIABLES
    collected,  \* the reports collected so far
    owed,       \* of each report: the destinations its record still names
    accepted,   \* of each report: the destinations that have accepted it
    unreadable, \* the reports whose record was damaged
    stamp       \* of each report: the time it is kept under

deliveryVars == <<collected, owed, accepted, unreadable, stamp>>

Readable == {r \in Reports : owed[r] # {}} \ unreadable

\* What is left when the records of a set stay.
Leaving(S) == [r \in Reports |-> IF r \in S THEN owed[r] ELSE {}]

Init ==
    /\ collected = {}
    /\ owed = [r \in Reports |-> {}]
    /\ accepted = [r \in Reports |-> {}]
    /\ unreadable = {}
    /\ stamp \in [Reports -> Reports]

\* A report is collected once; the clock decides where it is kept.
Put(r, plan, time) ==
    /\ r \notin collected
    /\ collected' = collected \cup {r}
    /\ owed' = [owed EXCEPT ![r] = plan]
    /\ stamp' = [stamp EXCEPT ![r] = time]
    /\ UNCHANGED <<accepted, unreadable>>

\* Destinations accept a report, one or more that share an endpoint.
Accept(r, where) ==
    /\ r \in collected
    /\ UNCHANGED <<collected, owed, unreadable, stamp>>
    /\ accepted' = [accepted EXCEPT ![r] = @ \cup where]

CrossOut(r, d) ==
    /\ r \in Readable
    /\ d \in accepted[r]
    /\ UNCHANGED <<collected, accepted, unreadable, stamp>>
    /\ owed' = [owed EXCEPT ![r] = @ \ {d}]

\* Everything that stays is newer than everything that goes.
Newest(S) == \A r \in S, q \in Readable \ S : stamp[q] < stamp[r]

\* As many of the newest reports stay as are within the limits.
Limit ==
    /\ UNCHANGED <<collected, unreadable, stamp, accepted>>
    /\ \E S \in SUBSET Readable :
          /\ owed' = Leaving(S)
          /\ Newest(S) /\ S \in Fitting
          /\ \A T \in SUBSET Readable : Newest(T) /\ T \in Fitting => T \subseteq S

Damage(r) ==
    /\ unreadable' = unreadable \cup {r}
    /\ UNCHANGED <<collected, owed, accepted, stamp>>

\* What cannot be read is moved away.
Quarantine ==
    /\ owed' = Leaving(Readable)
    /\ UNCHANGED <<collected, accepted, unreadable, stamp>>

Next ==
    \/ Quarantine \/ Limit
    \/ \E r \in Reports :
          \/ \E plan \in Plans : Put(r, plan, stamp'[r])
          \/ \E d \in UNION Plans : CrossOut(r, d)
          \/ \E where \in SUBSET UNION Plans : Accept(r, where)
          \/ Damage(r)

Spec == Init /\ [][Next]_deliveryVars
=============================================================================
