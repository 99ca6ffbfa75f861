SPECIFICATION FairSpec
CONSTANTS
    j1 = j1  j2 = j2  m1 = m1  m2 = m2
    Job = {j1, j2}
    NoJob = NoJob
    Message = {m1, m2}
    MaxFetches = 2
INVARIANTS TypeOK IInv NothingIsLost RepeatsAreRedeliveries 
PROPERTIES HostsJobs ShutdownEnds
