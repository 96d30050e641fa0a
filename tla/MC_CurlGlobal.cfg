CONSTANTS
    r1 = r1
    r2 = r2
    Requests <- MCRequests
    CurlTimeouts <- MCCurlTimeouts
    MaxSteps = 2
    MaxAdds = 2
    MaxFaults = 1
SPECIFICATION Spec
CHECK_DEADLOCK FALSE
INVARIANT TypeOK
INVARIANT EpollWatchesWanted
PROPERTY RequestFinishes
PROPERTY ImplementsLifecycle
