--------------------------- MODULE MC_EventLoop ---------------------------
(* Model-checking instance of EventLoop: two deferred monitors, one timer, *)
(* one idle monitor, two sockets and one foreign thread.                   *)
EXTENDS EventLoop

MCEffects ==
    {[kind |-> "none", arg |-> NoObj], [kind |-> "break", arg |-> NoObj]}
    \cup {[kind |-> k, arg |-> m] : k \in {"defer", "undefer"}, m \in Monitors}
    \cup {[kind |-> k, arg |-> t] : k \in {"timer", "untimer"}, t \in Timers}
    \cup {[kind |-> k, arg |-> i] : k \in {"idle", "unidle"}, i \in Idles}
    \cup {[kind |-> k, arg |-> s] : k \in {"sock", "unsock"}, s \in Sockets}

\* Callbacks never call Break(): the only Break() is a foreign thread's.
MCEffectsNoBreak == MCEffects \ {[kind |-> "break", arg |-> NoObj]}
=============================================================================
