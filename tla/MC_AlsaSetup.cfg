CONSTANTS
    Universe <- MCUniverse
    Inputs <- MCInputs
    BufferTimeCfgs = {0}
    PeriodTimeCfgs = {0, 3}
    DriverBufferTimes = {8000, 10000}
SPECIFICATION Spec
\* SetupOrDop returns once its last Setup succeeds or it throws.
CHECK_DEADLOCK FALSE
INVARIANT TypeOK
INVARIANT FormatSearchComplete
 
INVARIANT DopBitPerfect
PROPERTY SetupTerminates
