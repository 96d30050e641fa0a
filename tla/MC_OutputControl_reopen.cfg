CONSTANTS
    Outputs <- MCOutputs
    Formats = {f1}
    NoFmt = nofmt
    HasEnable = TRUE
    HasDisable = TRUE
    ReopenAfter = 10
    TimeStep = 10
    MaxTime = 20
    NoTime = notime
SPECIFICATION Spec
\* Once every output has been destroyed and joined nothing is left to run.
CHECK_DEADLOCK FALSE
INVARIANT ReopenAfterDelay
