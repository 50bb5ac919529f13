SPECIFICATION FairSpec
CONSTANTS
    s1 = s1
    s2 = s2
    s3 = s3
    d1 = d1
    d2 = d2
    d3 = d3
    hourly = hourly
    daily = daily
    due_date = due_date
    xact_start = xact_start
    NoLabel = NoLabel
    NoScript = NoScript
    Scripts = {s1, s2, s3}
    Definitions = {d1, d2, d3}
    Targets = {t1}
    Label <- MCLabels
    Granularity <- MCGranularity
    DelayField <- MCOneField
    MaxTimeouts = 1
    MaxFailures = 1
INVARIANTS TypeOK NoticedOnce
PROPERTIES EveryTargetNoticed
CHECK_DEADLOCK FALSE
