SPECIFICATION FairSpec
CONSTANTS
    t1 = t1
    t2 = t2
    Tenants = {t1, t2}
    Hosts = {host}
    InitialDomain <- FirstHasHosts
    InitialStatus <- LiveAndDraft
    Dates = {0}
    Unreachable = {t2}
    Sweeps = {s1}
    Operators = {op}
    Resolvers = {r1}
    GraceDays = 3
    LeadDays = 2
    BatchLimit = 1
    MaxNow = 4
    MaxEdits = 2
    MaxFaults = 1
INVARIANTS
    TypeOK
    WarnedOnce
    DarkOnlyWhenDue
    StaleEntryHasReason
CHECK_DEADLOCK FALSE
PROPERTIES
    OverdueGoesDark
    SuspensionBites
