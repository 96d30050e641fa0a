CONSTANTS
    Cap = 3
    MaxSent = 7
SPECIFICATION Spec
\* Once the socket is closed nothing is left to run.
CHECK_DEADLOCK FALSE
INVARIANT TypeOK
INVARIANT NoReadIntoFullBuffer
PROPERTY InputNotStalled
