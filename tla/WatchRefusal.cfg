\* A refusal from a node that is behind the chain is remembered for good.
SPECIFICATION WatchSpec
CONSTANTS
    Jobs = {good}
    NoJob = NoJob
    Bad = {}
    Early = {good}
    Callers <- MCCallers
    Calls = {c1}
    Scans = {s1}
    Runners = {r1}
    Lag = TRUE
    MaxFaults = 0
    Loop = loop
    Requests = {}
    Buyer = buyer
INVARIANT RefusalsStand
