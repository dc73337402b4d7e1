----------------------------- MODULE MCReports -----------------------------
(* For TLC: the way of a report, from the outbox of the Agent (Reporting) to  *)
(* what the Panel thins out (Retention), and the Panel's settings (Settings), *)
(* side by side.  They share no variable, and a behaviour is one of one of    *)
(* them.                                                                      *)
EXTENDS Reporting, Retention, Settings

VARIABLE part    \* the component whose behaviour it is

reportsVars == <<part, reportingVars, retentionVars, settingsVars>>

\* The third report does not fit beside the second.
GrowingReports == <<1, 2, 2>>

\* One webhook, which a reload may take out and put back.
WebhookComesAndGoes == {<<"a">>, <<>>}

\* Raw samples and hourly averages of a day; and days of which the first is too
\* few for a report that is on its way.
LongAndShortDays == {[raw |-> 1, hourly |-> 1, daily |-> 2], [raw |-> 0, hourly |-> 1, daily |-> 1]}

OfReporting == part = "reporting" /\ ReportingNext /\ UNCHANGED <<part, retentionVars, settingsVars>>
OfRetention == part = "retention" /\ RetentionNext /\ UNCHANGED <<part, reportingVars, settingsVars>>
OfSettings == part = "settings" /\ SettingsNext /\ UNCHANGED <<part, reportingVars, retentionVars>>

ReportsInit ==
    /\ part \in {"reporting", "retention", "settings"}
    /\ ReportingInit /\ RetentionInit /\ SettingsInit
    /\ part # "reporting" => conf = <<"a">>

ReportsSpec ==
    /\ ReportsInit
    /\ [][OfReporting \/ OfRetention \/ OfSettings]_reportsVars
=============================================================================
