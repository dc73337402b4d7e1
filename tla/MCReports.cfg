CONSTANTS
    MaxReport = 3
    MaxItems = 2
    MaxBytes = 3
    SizeOf <- GrowingReports
    Configs <- WebhookComesAndGoes
    PanelSends = {"ok", "refused", "lost"}
    HookSends = {"ok", "hang"}
    Patience = 1
    ReportFaults = {"crash", "disk", "damage", "build", "clock", "reload"}
    Reporters = {n}
    Hour = 2
    Day = 4
    StoreWithin = 2
    MaxTime = 9
    MaxSamples = 2
    MaxFailures = 1
    DaysInForce <- LongAndShortDays
    Fields = {"node_timeout", "retention"}
    Values = {1, 2}
    Patches = {q1, q2}
    MaxPatches = 3
    SettingsFaults = {"kill", "disk"}
SPECIFICATION ReportsSpec
INVARIANTS CountedOnce SettingsSurvive
PROPERTIES  AcknowledgedWasAccepted SamplesAreKept
CHECK_DEADLOCK FALSE
