----------------------------- MODULE Switchover -----------------------------
(***************************************************************************)
(* What the remote upgrade of an Agent promises.  A version is linked only *)
(* once it is installed and stays installed while it is linked or runs.    *)
(* It is vouched for only when it has been ready, running from the link.   *)
(* An upgrade is reported as applied while the wanted version is linked,   *)
(* runs and is vouched for, and as rolled back while the previous one is   *)
(* linked and runs.  The Panel is told once: that the upgrade was applied  *)
(* by the wanted version itself, and that it was not by an older one.      *)
(***************************************************************************)
EXTENDS Integers

CONSTANTS
    Upgrades,
    Wanted      \* the version that each upgrade is to

VARIABLES
    installed,  \* the versions on disk
    linked,     \* the version that the link names
    running,    \* the version that runs ...
    ready,      \* ... and whether it is ready
    vouched,    \* the versions seen ready
    report,     \* the last report: of an upgrade, from a version, an outcome
    told        \* what the Panel has been told of each upgrade

switchoverVars == <<installed, linked, running, ready, vouched, report, told>>

NoReport == [cmd |-> 0, prev |-> 0, code |-> ""]

Init ==
    /\ installed = {linked}
    /\ running = linked
    /\ ready = FALSE
    /\ vouched = {running}
    /\ report = NoReport
    /\ told = [u \in Upgrades |-> "open"]

Install(v) ==
    /\ installed' = installed \cup {v}
    /\ UNCHANGED <<linked, running, ready, vouched, report, told>>

Remove ==
    /\ installed' \subseteq installed
    /\ {linked, running} \subseteq installed'
    /\ UNCHANGED <<linked, running, ready, vouched, report, told>>

Link(v) ==
    /\ v \in installed
    /\ linked' = v
    /\ UNCHANGED <<installed, running, ready, vouched, report, told>>

Start ==
    /\ running' = linked
    /\ ready' = FALSE
    /\ UNCHANGED <<installed, linked, vouched, report, told>>

BecomeReady ==
    /\ ready' = TRUE
    /\ UNCHANGED <<installed, linked, running, vouched, report, told>>

Vouch ==
    /\ ready
    /\ running = linked
    /\ vouched' = vouched \cup {running}
    /\ UNCHANGED <<installed, linked, running, ready, report, told>>

Report(u, prev, code) ==
    /\ prev < Wanted[u]
    /\ code = "upgrade_applied" => linked = Wanted[u] /\ running = linked /\ running \in vouched
    /\ code = "upgrade_rolled_back" => linked = prev /\ running = linked
    /\ report' = [cmd |-> u, prev |-> prev, code |-> code]
    /\ UNCHANGED <<installed, linked, running, ready, vouched, told>>

Forget ==
    /\ report' = NoReport
    /\ UNCHANGED <<installed, linked, running, ready, vouched, told>>

\* "failed" is an upgrade that could not be asked for or followed.
Tell(u, outcome) ==
    /\ told[u] = "open"
    /\ outcome = "applied" => running = Wanted[u] /\ running \in vouched
    /\ outcome = "kept" => running < Wanted[u]
    /\ told' = [told EXCEPT ![u] = outcome]
    /\ UNCHANGED <<installed, linked, running, ready, vouched, report>>

Next ==
    \/ Start \/ BecomeReady \/ Vouch \/ Remove \/ Forget
    \/ \E v \in {Wanted[u] : u \in Upgrades} : Install(v)
    \/ \E v \in installed : Link(v)
    \/ \E u \in Upgrades :
          \/ Report(u, report'.prev, report'.code)
          \/ \E outcome \in {"applied", "kept", "failed"} : Tell(u, outcome)

Spec == Init /\ [][Next]_switchoverVars
=============================================================================
