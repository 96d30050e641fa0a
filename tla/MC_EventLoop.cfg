CONSTANTS
    Monitors = {m1, m2}
    Timers = {tm1}
    Idles = {i1}
    Sockets = {s1, s2}
    WakeFd = wakefd
    Threads = {t1}
    NoObj = noobj
    Effects <- MCEffects
    MaxAdds = 2
SPECIFICATION Spec
INVARIANT TypeOK
INVARIANT NoLostWakeup
INVARIANT NoDispatchAfterCancel
INVARIANT PendingMatchesQueue
PROPERTY Termination
PROPERTY DeferredRuns
CHECK_DEADLOCK FALSE
