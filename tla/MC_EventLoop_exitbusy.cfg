CONSTANTS
    Monitors = {m1, m2}
    Timers = {tm1}
    Idles = {i1}
    Sockets = {s1, s2}
    WakeFd = wakefd
    Threads = {t1}
    NoObj = noobj
    Effects <- MCEffectsNoBreak
    MaxAdds = 2
SPECIFICATION Spec
CHECK_DEADLOCK FALSE
INVARIANT LoopExitBusy
