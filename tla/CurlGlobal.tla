------------------------------ MODULE CurlGlobal ------------------------------
(***************************************************************************)
(* CurlGlobal (src/lib/curl/Global.cxx) drives libcurl's multi interface   *)
(* from MPD's I/O thread.  libcurl announces the sockets it wants polled   *)
(* through SocketFunction() and the timeout it wants through               *)
(* TimerFunction(); MPD calls curl_multi_socket_action() when a socket is  *)
(* ready (OnSocketReady) or the timer expires (OnTimeout), and after every *)
(* call a DeferredMonitor runs ReadInfo(), which hands every finished      *)
(* transfer to its request's Done().                                       *)
(*                                                                         *)
(* Everything runs in the I/O thread, so each action is atomic; the only   *)
(* split is Add()/Remove() followed by InvalidateSockets(), kept as two    *)
(* steps with nothing in between.  libcurl is the environment: a transfer  *)
(* is "new" after curl_multi_add_handle(), "run" while it waits for the    *)
(* socket directions in `want` (or, with no socket or CURL_POLL_NONE, for  *)
(* a timeout), and "complete" once a CURLMSG_DONE is queued.  Each         *)
(* request owns one socket, named by the request.  The kernel's epoll set  *)
(* is modelled (the build on Linux uses epoll): SocketMonitor::Schedule()  *)
(* does EPOLL_CTL_ADD from no flags, EPOLL_CTL_DEL to no flags and         *)
(* EPOLL_CTL_MOD otherwise, and MOD fails for a descriptor epoll does not  *)
(* know.  Older libcurl closes a socket and opens a new one with the same  *)
(* number without CURL_POLL_REMOVE (the comment at lines 120-127); closing *)
(* it drops it from the epoll set.                                         *)
(***************************************************************************)
EXTENDS Integers, FiniteSets

CONSTANTS
    Requests,      \* the transfers (CurlRequest objects)
    CurlTimeouts,  \* the timeout_ms values libcurl passes to TimerFunction
    MaxSteps,      \* bound on the socket changes of one transfer
    MaxAdds,       \* bound on the times a request is added
    MaxFaults      \* bound on sockets reopened under the same number

VARIABLES
    added,     \* the easy handle is in the multi handle
    xfer,      \* libcurl's view of the transfer: "off", "new", "run", "complete"
    want,      \* the last action libcurl gave SocketFunction for its socket
    steps,     \* socket changes of the transfer since it was added
    msgs,      \* transfers with a CURLMSG_DONE in libcurl's queue
    reported,  \* Done() was called since the request was added
    adds,      \* times each request was added
    faults,    \* sockets reopened under the same number so far
    cs,        \* a CurlSocket is assigned to the transfer's socket
    monitor,   \* [s |-> SocketMonitor's scheduled flags, k |-> epoll's flags]
    timer,     \* the TimeoutMonitor is scheduled
    timerMs,   \* the delay it was scheduled with
    deferred,  \* the DeferredMonitor is scheduled
    io         \* "idle", or "invalidate" between Add/Remove and InvalidateSockets

vars == <<added, xfer, want, steps, msgs, reported, adds, faults, cs,
          monitor, timer, timerMs, deferred, io>>

Actions == {"REMOVE", "NONE", "IN", "OUT", "INOUT"}
Flags == {"READ", "WRITE"}
Unscheduled == [s |-> {}, k |-> {}]

TypeOK ==
    /\ added \in [Requests -> BOOLEAN]
    /\ xfer \in [Requests -> {"off", "new", "run", "complete"}]
    /\ want \in [Requests -> Actions]
    /\ steps \in [Requests -> 0..MaxSteps]
    /\ msgs \subseteq Requests
    /\ reported \in [Requests -> BOOLEAN]
    /\ adds \in [Requests -> 0..MaxAdds]
    /\ faults \in 0..MaxFaults
    /\ cs \in [Requests -> BOOLEAN]
    /\ monitor \in [Requests -> [s : SUBSET Flags, k : SUBSET Flags]]
    /\ timer \in BOOLEAN
    /\ timerMs \in {0, 10} \cup {t \in CurlTimeouts : t >= 10}
    /\ deferred \in BOOLEAN
    /\ io \in {"idle", "invalidate"}

Init ==
    /\ added = [r \in Requests |-> FALSE]
    /\ xfer = [r \in Requests |-> "off"]
    /\ want = [r \in Requests |-> "REMOVE"]
    /\ steps = [r \in Requests |-> 0]
    /\ msgs = {}
    /\ reported = [r \in Requests |-> FALSE]
    /\ adds = [r \in Requests |-> 0]
    /\ faults = 0
    /\ cs = [r \in Requests |-> FALSE]
    /\ monitor = [r \in Requests |-> Unscheduled]
    /\ timer = FALSE
    /\ timerMs = 0
    /\ deferred = FALSE
    /\ io = "idle"

\* CurlSocket::CurlPollToFlags().
CurlPollToFlags(a) ==
    CASE a = "IN"    -> {"READ"}
      [] a = "OUT"   -> {"WRITE"}
      [] a = "INOUT" -> {"READ", "WRITE"}
      [] OTHER       -> {}

\* SocketMonitor::Schedule() on the epoll build: ADD from no flags, DEL to
\* no flags, MOD otherwise; MOD of a descriptor epoll does not know fails
\* and leaves the epoll set as it was.  Cancel() is Schedule(0).
MonitorSchedule(m, f) ==
    CASE f = m.s  -> m
      [] m.s = {} -> [s |-> f, k |-> f]
      [] f = {}   -> Unscheduled
      [] OTHER    -> [s |-> f, k |-> IF m.k # {} THEN f ELSE m.k]

\* A mutant: an existing CurlSocket is rescheduled without Cancel().
SocketFunctionNoCancel(c, m, a) ==
    IF a = "REMOVE" THEN [c |-> FALSE, m |-> MonitorSchedule(m, {})]
    ELSE LET f == CurlPollToFlags(a)
         IN [c |-> TRUE,
             m |-> IF f # {} THEN MonitorSchedule(IF c THEN m ELSE Unscheduled, f)
                   ELSE IF c THEN m ELSE Unscheduled]

\* CurlSocket::SocketFunction() for a socket whose CurlSocket exists (c)
\* and monitor is m: REMOVE deletes the CurlSocket (its destructor cancels
\* the monitor); otherwise a missing CurlSocket is created and assigned,
\* an existing one is cancelled (USE_EPOLL), and non-zero flags scheduled.
SocketFunction(c, m, a) ==
    IF a = "REMOVE" THEN [c |-> FALSE, m |-> MonitorSchedule(m, {})]
    ELSE LET m0 == IF c THEN MonitorSchedule(m, {}) ELSE Unscheduled
             f  == CurlPollToFlags(a)
         IN [c |-> TRUE, m |-> IF f # {} THEN MonitorSchedule(m0, f) ELSE m0]

\* A mutant: "timeout=0" is taken as no timeout.
UpdateTimeoutZeroCancels(t) ==
    IF t <= 0 THEN timer' = FALSE /\ timerMs' = 0
    ELSE timer' = TRUE /\ timerMs' = IF t < 10 THEN 10 ELSE t

\* A mutant: no lower limit of 10 ms.
UpdateTimeoutNoFloor(t) ==
    IF t < 0 THEN timer' = FALSE /\ timerMs' = 0
    ELSE timer' = TRUE /\ timerMs' = t

\* CurlGlobal::UpdateTimeout() called by TimerFunction(): a negative
\* timeout cancels the TimeoutMonitor, one below 10 ms is raised to 10 ms.
UpdateTimeout(t) ==
    IF t < 0 THEN timer' = FALSE /\ timerMs' = 0
    ELSE timer' = TRUE /\ timerMs' = IF t < 10 THEN 10 ELSE t

\* A transfer libcurl drives by its timeout rather than by a socket.
NeedsTimer(x, a) == x = "new" \/ (x = "run" /\ a \in {"REMOVE", "NONE"})

(***************************************************************************)
(* libcurl inside curl_multi_socket_action() for target tg, a request's    *)
(* socket or "TIMEOUT".  Every added transfer the call concerns (the       *)
(* socket's own, or those driven by the timeout) either completes, which   *)
(* queues CURLMSG_DONE and removes its socket, or waits on a new socket    *)
(* action; the number of such changes is bounded by MaxSteps.  For every   *)
(* socket whose action changed libcurl calls SocketFunction(); a socket    *)
(* in `reopen` was closed and reopened under the same number, which drops  *)
(* it from the epoll set, and is announced again.  Last, TimerFunction()   *)
(* gets a timeout if some transfer needs one and -1 otherwise.             *)
(***************************************************************************)
Triggered(r, tg) ==
    /\ added[r]
    /\ IF tg = "TIMEOUT" THEN NeedsTimer(xfer[r], want[r])
                         ELSE tg = r /\ xfer[r] = "run"

Outcomes(r, tg) ==
    IF ~Triggered(r, tg) THEN {"keep"}
    ELSE IF steps[r] < MaxSteps THEN Actions \cup {"complete"}
    ELSE {"complete"}

CurlStep(tg) ==
    \E o \in {f \in [Requests -> Actions \cup {"keep", "complete"}] :
                \A r \in Requests : f[r] \in Outcomes(r, tg)} :
    \E reopen \in SUBSET {r \in Requests :
                cs[r] /\ o[r] \in Actions \ {"REMOVE"}} :
    LET w2 == [r \in Requests |->
                 CASE o[r] = "keep"     -> want[r]
                   [] o[r] = "complete" -> "REMOVE"
                   [] OTHER             -> o[r]]
        x2 == [r \in Requests |->
                 CASE o[r] = "keep"     -> xfer[r]
                   [] o[r] = "complete" -> "complete"
                   [] OTHER             -> "run"]
        called(r) == r \in reopen \/ w2[r] # want[r]
        sf(r) == SocketFunction(cs[r],
                   IF r \in reopen THEN [monitor[r] EXCEPT !.k = {}]
                                   ELSE monitor[r],
                   w2[r])
        timeouts == IF \E r \in Requests : added[r] /\ NeedsTimer(x2[r], w2[r])
                    THEN CurlTimeouts ELSE {-1}
    IN /\ faults + Cardinality(reopen) <= MaxFaults
       /\ faults' = faults + Cardinality(reopen)
       /\ xfer' = x2
       /\ want' = w2
       /\ steps' = [r \in Requests |->
                      IF o[r] \in Actions THEN steps[r] + 1 ELSE steps[r]]
       /\ msgs' = msgs \cup {r \in Requests : o[r] = "complete"}
       /\ cs' = [r \in Requests |-> IF called(r) THEN sf(r).c ELSE cs[r]]
       /\ monitor' = [r \in Requests |->
                        IF called(r) THEN sf(r).m ELSE monitor[r]]
       /\ \E t \in timeouts : UpdateTimeout(t)

\* CurlGlobal::SocketAction(): curl_multi_socket_action(), an error only
\* logged, then DeferredMonitor::Schedule().
SocketAction(tg) == CurlStep(tg) /\ deferred' = TRUE

\* CurlGlobal::Add(): curl_multi_add_handle(), then InvalidateSockets().
Add(r) ==
    /\ io = "idle" /\ ~added[r] /\ adds[r] < MaxAdds
    /\ added' = [added EXCEPT ![r] = TRUE]
    /\ xfer' = [xfer EXCEPT ![r] = "new"]
    /\ steps' = [steps EXCEPT ![r] = 0]
    /\ reported' = [reported EXCEPT ![r] = FALSE]
    /\ adds' = [adds EXCEPT ![r] = @ + 1]
    /\ io' = "invalidate"
    /\ UNCHANGED <<want, msgs, faults, cs, monitor, timer, timerMs, deferred>>

\* A mutant: the CURLMSG_DONE of a removed handle stays in libcurl's queue.
RemoveKeepsMessage(r) ==
    LET sf == SocketFunction(cs[r], monitor[r], "REMOVE")
    IN /\ io = "idle" /\ added[r]
       /\ added' = [added EXCEPT ![r] = FALSE]
       /\ xfer' = [xfer EXCEPT ![r] = "off"]
       /\ want' = [want EXCEPT ![r] = "REMOVE"]
       /\ cs' = IF want[r] # "REMOVE" THEN [cs EXCEPT ![r] = sf.c] ELSE cs
       /\ monitor' = IF want[r] # "REMOVE"
                     THEN [monitor EXCEPT ![r] = sf.m] ELSE monitor
       /\ io' = "invalidate"
       /\ UNCHANGED <<msgs, steps, reported, adds, faults, timer, timerMs,
                      deferred>>

\* CurlGlobal::Remove(): curl_multi_remove_handle() removes the socket of
\* the transfer (SocketFunction with REMOVE) and its queued message, then
\* InvalidateSockets().
Remove(r) ==
    LET sf == SocketFunction(cs[r], monitor[r], "REMOVE")
    IN /\ io = "idle" /\ added[r]
       /\ added' = [added EXCEPT ![r] = FALSE]
       /\ xfer' = [xfer EXCEPT ![r] = "off"]
       /\ want' = [want EXCEPT ![r] = "REMOVE"]
       /\ msgs' = msgs \ {r}
       /\ cs' = IF want[r] # "REMOVE" THEN [cs EXCEPT ![r] = sf.c] ELSE cs
       /\ monitor' = IF want[r] # "REMOVE"
                     THEN [monitor EXCEPT ![r] = sf.m] ELSE monitor
       /\ io' = "invalidate"
       /\ UNCHANGED <<steps, reported, adds, faults, timer, timerMs, deferred>>

\* InvalidateSockets(): SocketAction(CURL_SOCKET_TIMEOUT, 0), the second
\* half of Add() and Remove().
InvalidateSockets ==
    /\ io = "invalidate"
    /\ SocketAction("TIMEOUT")
    /\ io' = "idle"
    /\ UNCHANGED <<added, reported, adds>>

\* CurlSocket::OnSocketReady(): the event loop dispatches a socket that
\* epoll reports ready for a scheduled direction.
OnSocketReady(r) ==
    /\ io = "idle" /\ cs[r]
    /\ monitor[r].k \cap monitor[r].s # {}
    /\ SocketAction(r)
    /\ UNCHANGED <<added, reported, adds, io>>

\* CurlGlobal::OnTimeout(): the one-shot TimeoutMonitor expired.
OnTimeout ==
    /\ io = "idle" /\ timer
    /\ SocketAction("TIMEOUT")
    /\ UNCHANGED <<added, reported, adds, io>>

\* RunDeferred() and ReadInfo(): every queued CURLMSG_DONE is read and its
\* request's Done() called.
RunDeferred ==
    /\ io = "idle" /\ deferred
    /\ reported' = [r \in Requests |-> reported[r] \/ r \in msgs]
    /\ msgs' = {}
    /\ deferred' = FALSE
    /\ UNCHANGED <<added, xfer, want, steps, adds, faults, cs, monitor,
                   timer, timerMs, io>>

Next ==
    \/ \E r \in Requests : Add(r) \/ Remove(r) \/ OnSocketReady(r)
    \/ InvalidateSockets
    \/ OnTimeout
    \/ RunDeferred

\* The event loop runs the I/O thread's monitors: a ready socket, an
\* expired timer and a scheduled DeferredMonitor are dispatched.  The
\* requests' owners add and remove at will.
Spec ==
    /\ Init /\ [][Next]_vars
    /\ WF_vars(InvalidateSockets) /\ WF_vars(OnTimeout) /\ WF_vars(RunDeferred)
    /\ \A r \in Requests : WF_vars(OnSocketReady(r))

(***************************************************************************)
(* Properties.                                                             *)
(***************************************************************************)

\* The epoll set watches every socket exactly in the directions libcurl
\* last asked for, and a CurlSocket exists exactly for the sockets libcurl
\* has announced: SocketFunction() must keep this across REMOVE, NONE and a
\* socket reopened under the same number without REMOVE (lines 120-131).
EpollWatchesWanted ==
    \A r \in Requests :
        /\ cs[r] = (want[r] # "REMOVE")
        /\ monitor[r].k = IF cs[r] THEN CurlPollToFlags(want[r]) ELSE {}

\* A request that stays added is eventually handed to Done(): its transfer
\* progresses through socket events and timeouts until libcurl finishes
\* it, and ReadInfo() then reports it.
RequestFinishes ==
    \A r \in Requests : added[r] ~> (reported[r] \/ ~added[r])

\* The request lifecycle CurlGlobal implements: a request that is not added
\* is idle, one whose Done() was called since its Add() is done, one whose
\* transfer libcurl completed is finished, and any other added one running.
Lifecycle == INSTANCE CurlRequests WITH
    phase <- [r \in Requests |->
                CASE ~added[r]            -> "idle"
                  [] reported[r]          -> "done"
                  [] xfer[r] = "complete" -> "finished"
                  [] OTHER                -> "running"]

\* CurlGlobal refines CurlRequests: ReadInfo() calls Done() only for a
\* request whose current transfer libcurl has completed, at most once per
\* Add(), never for a removed one, and never for a request re-added after
\* Remove() on the strength of a CURLMSG_DONE queued before the removal.
ImplementsLifecycle == Lifecycle!Spec

================================================================================
