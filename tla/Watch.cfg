\* A funded job is served, without its buyer and through faults, and only once at a time.
SPECIFICATION FairWatchSpec
CONSTANTS
    Jobs = {good}
    NoJob = NoJob
    Bad = {}
    Early = {}
    Callers <- MCCallers
    Calls = {c1}
    Scans = {s1}
    Runners = {r1, r2}
    Lag = TRUE
    MaxFaults = 1
    Loop = loop
    Requests = {rest}
    Buyer = buyer
INVARIANTS
    TypeOK
    WatchTypeOK
    OneDeliveryPerJob
    SlotsAreGivenBack
    OnlyHopelessJobsAreSkipped
PROPERTY FundedJobsAreServed
