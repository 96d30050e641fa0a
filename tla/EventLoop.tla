----------------------------- MODULE EventLoop -----------------------------
(***************************************************************************)
(* The I/O event loop of src/event/Loop.cxx: EventLoop::Run() with its     *)
(* timer, idle, deferred and socket phases, the cross-thread entry points  *)
(* AddDeferred(), RemoveDeferred() and Break(), and the in-thread          *)
(* registration calls made by the callbacks the loop runs.                 *)
(*                                                                         *)
(* The loop thread is one process (lpc).  Foreign threads (CONSTANT        *)
(* Threads) only ever enter the loop's mutex for a few instructions that   *)
(* touch nothing else, so each locked section is one atomic step; the      *)
(* wake_fd.Write() that follows the unlock is a step of its own.  The     *)
(* self-pipe (wake_fd, an eventfd) is the boolean `wake`: readable or not. *)
(* Time is abstracted: a timer is "due" whenever the loop chooses to run   *)
(* it, and a poll with an armed timer may return by timeout.              *)
(*                                                                         *)
(* What a callback (TimeoutMonitor::Run, IdleMonitor::Run,                 *)
(* SocketMonitor::Dispatch, DeferredMonitor::RunDeferred) does to the loop *)
(* is one element of the CONSTANT set Effects.                             *)
(***************************************************************************)
EXTENDS Integers, Sequences, SequencesExt, FiniteSets

CONSTANTS
    Monitors,   \* DeferredMonitor objects
    Timers,     \* TimeoutMonitor objects
    Idles,      \* IdleMonitor objects
    Sockets,    \* SocketMonitor objects other than the loop's own wake_fd
    WakeFd,     \* the loop's own SocketMonitor on wake_fd
    Threads,    \* threads other than the loop thread
    NoObj,      \* "no object" (an unused callback argument / current object)
    Effects,    \* what one callback may do: a set of [kind, arg] records
    MaxAdds     \* bound on AddDeferred() calls made by foreign threads

ASSUME WakeFd \notin Sockets /\ NoObj \notin Monitors \cup Timers \cup Idles \cup Sockets
ASSUME MaxAdds \in Nat

Objects == Monitors \cup Timers \cup Idles \cup Sockets

VARIABLES
    lpc,         \* where the loop thread is in Run() / HandleDeferred()
    ctx,         \* who called HandleDeferred(): "run" (Run) or "socket" (OnSocketReady)
    cur,         \* the callback object the loop is running
    locked,      \* the loop thread holds EventLoop::mutex
    busy,        \* EventLoop::busy
    again,       \* EventLoop::again
    quit,        \* EventLoop::quit
    wake,        \* wake_fd is readable
    deferred,    \* EventLoop::deferred (FIFO of DeferredMonitors)
    pending,     \* DeferredMonitor::pending
    timers,      \* EventLoop::timers (armed TimeoutMonitors)
    idle,        \* EventLoop::idle (FIFO of IdleMonitors)
    registered,  \* sockets registered in poll_group
    pollResult,  \* poll_result: the objects returned by ReadEvents
    pollCleared, \* objects whose poll_result entries were Clear()ed
    di,          \* index of the socket loop over poll_result
    tpc,         \* per foreign thread: "idle", or about to write wake_fd
    adds         \* AddDeferred() calls made by foreign threads so far

vars == <<lpc, ctx, cur, locked, busy, again, quit, wake, deferred, pending,
          timers, idle, registered, pollResult, pollCleared, di, tpc, adds>>

\* The variables a callback may touch through its effect.
effectVars == <<again, quit, wake, deferred, pending, timers, idle,
                registered, pollCleared>>

LoopPcs == {"top", "timers", "timerrun", "idle", "idlerun", "handle",
            "defrun", "poll", "setbusy", "dispatch", "sockrun", "done", "exit"}

TypeOK ==
    /\ lpc \in LoopPcs
    /\ ctx \in {"run", "socket"}
    /\ cur \in Objects \cup {NoObj}
    /\ locked \in BOOLEAN /\ busy \in BOOLEAN /\ again \in BOOLEAN
    /\ quit \in BOOLEAN /\ wake \in BOOLEAN
    /\ deferred \in Seq(Monitors) /\ pending \in [Monitors -> BOOLEAN]
    /\ timers \subseteq Timers /\ idle \in Seq(Idles)
    /\ registered \subseteq Sockets
    /\ pollResult \in Seq(Sockets \cup {WakeFd}) /\ pollCleared \subseteq Sockets
    /\ di \in Nat
    /\ lpc \in {"dispatch", "sockrun"} => di \in 1..Len(pollResult) + 1
    /\ tpc \in [Threads -> {"idle", "wake", "breakwake"}]
    /\ adds \in 0..MaxAdds

Init ==
    /\ lpc = "top" /\ ctx = "run" /\ cur = NoObj
    /\ locked = FALSE
    /\ busy = TRUE          \* Run() asserts busy on entry
    /\ again = FALSE /\ quit = FALSE
    /\ wake = FALSE
    /\ deferred = <<>> /\ pending = [m \in Monitors |-> FALSE]
    /\ timers = {} /\ idle = <<>>
    /\ registered = Sockets
    /\ pollResult = <<>> /\ pollCleared = {} /\ di = 1
    /\ tpc = [t \in Threads |-> "idle"]
    /\ adds = 0

-----------------------------------------------------------------------------
(* The mutex-protected part of AddDeferred() (lines 235-251).  MustWake is *)
(* the decision taken under the lock whether wake_fd has to be written.    *)

MustWake == ~busy /\ deferred = <<>>

AddDeferredLocked(m) ==
    IF pending[m]
    THEN UNCHANGED <<deferred, pending, again>>
    ELSE /\ pending' = [pending EXCEPT ![m] = TRUE]
         /\ deferred' = Append(deferred, m)
         /\ again' = TRUE

\* RemoveDeferred() (lines 258-274): a no-op unless the monitor is queued.
RemoveDeferredLocked(m) ==
    IF pending[m]
    THEN /\ pending' = [pending EXCEPT ![m] = FALSE]
         /\ deferred' = Remove(deferred, m)
    ELSE UNCHANGED <<pending, deferred>>

\* Mutant: the early return of Break() with its condition inverted.
BreakWritesInverted == quit

\* Break() (lines 47-53): only the call that flips quit writes wake_fd.
BreakWrites == ~quit

\* Mutant: the poll_group entry is removed but poll_result is not cleared.
RemoveFDNoClear(s) ==
    /\ registered' = registered \ {s}
    /\ pollCleared' = pollCleared

\* RemoveFD()/Abandon() (lines 56-71), called by SocketMonitor::Cancel():
\* the socket leaves poll_group and its entries in poll_result are cleared,
\* so the current dispatch iteration does not call it.
RemoveFD(s) ==
    /\ registered' = registered \ {s}
    /\ pollCleared' = pollCleared \cup {s}

-----------------------------------------------------------------------------
(* What a callback running inside the loop thread does.  These are the     *)
(* same entry points as above, called from the loop thread itself.         *)

CallbackEffect(e) ==
    \/ /\ e.kind = "none"
       /\ UNCHANGED effectVars
    \/ /\ e.kind = "defer"                       \* DeferredMonitor::Schedule()
       /\ AddDeferredLocked(e.arg)
       /\ wake' = (wake \/ (~pending[e.arg] /\ MustWake))
       /\ UNCHANGED <<quit, timers, idle, registered, pollCleared>>
    \/ /\ e.kind = "undefer"                     \* DeferredMonitor::Cancel()
       /\ RemoveDeferredLocked(e.arg)
       /\ UNCHANGED <<again, quit, wake, timers, idle, registered,
                      pollCleared>>
    \/ /\ e.kind = "break"                       \* EventLoop::Break()
       /\ quit' = TRUE
       /\ wake' = (wake \/ BreakWrites)
       /\ UNCHANGED <<again, deferred, pending, timers, idle, registered,
                      pollCleared>>
    \/ /\ e.kind = "timer"                       \* AddTimer() (lines 95-103)
       /\ timers' = timers \cup {e.arg}
       /\ again' = TRUE
       /\ UNCHANGED <<quit, wake, deferred, pending, idle, registered,
                      pollCleared>>
    \/ /\ e.kind = "untimer"                     \* CancelTimer() (lines 106-116)
       /\ timers' = timers \ {e.arg}
       /\ UNCHANGED <<again, quit, wake, deferred, pending, idle, registered,
                      pollCleared>>
    \/ /\ e.kind = "idle"                        \* AddIdle() (lines 74-81)
       /\ e.arg \notin ToSet(idle)
       /\ idle' = Append(idle, e.arg)
       /\ again' = TRUE
       /\ UNCHANGED <<quit, wake, deferred, pending, timers, registered,
                      pollCleared>>
    \/ /\ e.kind = "unidle"                      \* RemoveIdle() (lines 84-92)
       /\ e.arg \in ToSet(idle)
       /\ idle' = Remove(idle, e.arg)
       /\ UNCHANGED <<again, quit, wake, deferred, pending, timers,
                      registered, pollCleared>>
    \/ /\ e.kind = "unsock"                      \* SocketMonitor::Cancel()
       /\ e.arg \in registered
       /\ RemoveFD(e.arg)
       /\ UNCHANGED <<again, quit, wake, deferred, pending, timers, idle>>
    \/ /\ e.kind = "sock"                        \* SocketMonitor::Schedule()
       /\ registered' = registered \cup {e.arg}
       /\ UNCHANGED <<again, quit, wake, deferred, pending, timers, idle,
                      pollCleared>>

-----------------------------------------------------------------------------
(* The loop thread: EventLoop::Run() (lines 132-230).                      *)

\* Top of the do-while: now = steady_clock::now(); again = false.
LoopTop ==
    /\ lpc = "top"
    /\ again' = FALSE
    /\ lpc' = "timers"
    /\ UNCHANGED <<ctx, cur, locked, busy, quit, wake, deferred, pending,
                   timers, idle, registered, pollResult, pollCleared, di,
                   tpc, adds>>

\* A due timer is erased from the heap before it runs (lines 164-165).
TimerDue ==
    /\ lpc = "timers"
    /\ \E t \in timers :
         /\ timers' = timers \ {t}
         /\ cur' = t
    /\ lpc' = "timerrun"
    /\ UNCHANGED <<ctx, locked, busy, again, quit, wake, deferred, pending,
                   idle, registered, pollResult, pollCleared, di, tpc, adds>>

\* No timer is due (any more): go on to the idle monitors.
TimersDone ==
    /\ lpc = "timers"
    /\ lpc' = "idle"
    /\ UNCHANGED <<ctx, cur, locked, busy, again, quit, wake, deferred,
                   pending, timers, idle, registered, pollResult, pollCleared,
                   di, tpc, adds>>

\* m.Run(); if (quit) return;   (lines 167-170 and 178-181)
\* "done": Run() returned early; "exit": it left the do-while (line 222).
RunCallback(from, to) ==
    /\ lpc = from
    /\ \E e \in Effects : CallbackEffect(e)
    /\ lpc' = IF quit' THEN "done" ELSE to
    /\ cur' = NoObj
    /\ UNCHANGED <<ctx, locked, busy, pollResult, di, tpc, adds>>

TimerRun == RunCallback("timerrun", "timers")

IdlePop ==
    /\ lpc = "idle"
    /\ idle # <<>>
    /\ cur' = Head(idle)
    /\ idle' = Tail(idle)
    /\ lpc' = "idlerun"
    /\ UNCHANGED <<ctx, locked, busy, again, quit, wake, deferred, pending,
                   timers, registered, pollResult, pollCleared, di, tpc, adds>>

IdleRun == RunCallback("idlerun", "idle")

\* Mutant: the loop trusts the flag it cleared without the mutex and only
\* enters HandleDeferred() when again is set.
IdleDoneTrustsAgain ==
    /\ lpc = "idle"
    /\ idle = <<>>
    /\ \/ /\ again
          /\ locked' = TRUE /\ ctx' = "run" /\ lpc' = "handle"
          /\ UNCHANGED busy
       \/ /\ ~again
          /\ busy' = FALSE /\ lpc' = "poll"
          /\ UNCHANGED <<locked, ctx>>
    /\ UNCHANGED <<cur, again, quit, wake, deferred, pending, timers,
                   idle, registered, pollResult, pollCleared, di, tpc, adds>>

\* mutex.lock(); HandleDeferred();   (lines 186-187)
IdleDone ==
    /\ lpc = "idle"
    /\ idle = <<>>
    /\ locked' = TRUE
    /\ ctx' = "run"
    /\ lpc' = "handle"
    /\ UNCHANGED <<cur, busy, again, quit, wake, deferred, pending, timers,
                   idle, registered, pollResult, pollCleared, di, tpc, adds>>

\* Mutant: the popped monitor keeps its pending flag.
HandleDeferredKeepsPending ==
    /\ lpc = "handle"
    /\ deferred # <<>> /\ ~quit
    /\ cur' = Head(deferred)
    /\ deferred' = Tail(deferred)
    /\ locked' = FALSE
    /\ lpc' = "defrun"
    /\ UNCHANGED <<ctx, busy, again, quit, wake, pending, timers, idle,
                   registered, pollResult, pollCleared, di, tpc, adds>>

\* HandleDeferred() (lines 277-290): pop one monitor, clear its pending
\* flag and run it with the mutex released.
HandleDeferred ==
    /\ lpc = "handle"
    /\ deferred # <<>> /\ ~quit
    /\ cur' = Head(deferred)
    /\ deferred' = Tail(deferred)
    /\ pending' = [pending EXCEPT ![Head(deferred)] = FALSE]
    /\ locked' = FALSE
    /\ lpc' = "defrun"
    /\ UNCHANGED <<ctx, busy, again, quit, wake, timers, idle, registered,
                   pollResult, pollCleared, di, tpc, adds>>

\* m.RunDeferred(); mutex.lock();
DeferredRun ==
    /\ lpc = "defrun"
    /\ \E e \in Effects : CallbackEffect(e)
    /\ locked' = TRUE
    /\ lpc' = "handle"
    /\ cur' = NoObj
    /\ UNCHANGED <<ctx, busy, pollResult, di, tpc, adds>>

\* Mutant: Run() does not clear busy before it goes to sleep in poll().
HandleDoneKeepsBusy ==
    /\ lpc = "handle"
    /\ deferred = <<>> \/ quit
    /\ locked' = FALSE
    /\ \/ /\ ctx = "run"
          /\ lpc' = CASE again /\ quit -> "exit"
                       [] again       -> "top"
                       [] OTHER       -> "poll"
          /\ UNCHANGED <<di, busy>>
       \/ /\ ctx = "socket"
          /\ lpc' = "dispatch"
          /\ di' = di + 1
          /\ UNCHANGED busy
    /\ UNCHANGED <<ctx, cur, again, quit, wake, deferred, pending, timers,
                   idle, registered, pollResult, pollCleared, tpc, adds>>

\* HandleDeferred() returns.  From Run(): busy = false; _again = again;
\* mutex.unlock(); then either re-iterate or poll (lines 188-200).
\* From OnSocketReady(): mutex.unlock(); back to the socket loop.
HandleDone ==
    /\ lpc = "handle"
    /\ deferred = <<>> \/ quit
    /\ locked' = FALSE
    /\ \/ /\ ctx = "run"
          /\ busy' = FALSE
          \* "continue" jumps to the loop condition: while (!quit)
          /\ lpc' = CASE again /\ quit -> "exit"
                       [] again       -> "top"
                       [] OTHER       -> "poll"
          /\ UNCHANGED di
       \/ /\ ctx = "socket"
          /\ lpc' = "dispatch"
          /\ di' = di + 1
          /\ UNCHANGED busy
    /\ UNCHANGED <<ctx, cur, again, quit, wake, deferred, pending, timers,
                   idle, registered, pollResult, pollCleared, tpc, adds>>

\* poll_group.ReadEvents(): returns the ready registered sockets in some
\* order, and wake_fd if it is readable.
PollResults(ready) ==
    { s \o (IF wake THEN <<WakeFd>> ELSE <<>>) : s \in SetToSeqs(ready) }

\* The poll returns because wake_fd is readable or an armed timer expires;
\* this return is guaranteed to happen.
PollWake ==
    /\ lpc = "poll"
    /\ wake \/ timers # {}
    /\ \E ready \in SUBSET registered :
         \E r \in PollResults(ready) : pollResult' = r
    /\ lpc' = "setbusy"
    /\ UNCHANGED <<ctx, cur, locked, busy, again, quit, wake, deferred,
                   pending, timers, idle, registered, pollCleared, di, tpc,
                   adds>>

\* The poll returns because a peer made some registered socket ready.
PollExternal ==
    /\ lpc = "poll"
    /\ \E ready \in SUBSET registered \ {{}} :
         \E r \in PollResults(ready) : pollResult' = r
    /\ lpc' = "setbusy"
    /\ UNCHANGED <<ctx, cur, locked, busy, again, quit, wake, deferred,
                   pending, timers, idle, registered, pollCleared, di, tpc,
                   adds>>

\* Mutant: the socket loop index is not reset for the new poll_result.
SetBusyNoReset ==
    /\ lpc = "setbusy"
    /\ busy' = TRUE
    /\ lpc' = "dispatch"
    /\ UNCHANGED <<ctx, cur, locked, again, quit, wake, deferred, pending,
                   timers, idle, registered, pollResult, pollCleared, tpc,
                   adds, di>>

\* mutex.lock(); busy = true; mutex.unlock(); for (int i = 0; ...
\* (lines 204-209)
SetBusy ==
    /\ lpc = "setbusy"
    /\ busy' = TRUE
    /\ di' = 1
    /\ lpc' = "dispatch"
    /\ UNCHANGED <<ctx, cur, locked, again, quit, wake, deferred, pending,
                   timers, idle, registered, pollResult, pollCleared, tpc,
                   adds>>

\* One iteration of the socket loop (lines 209-218).
DispatchEntry ==
    /\ lpc = "dispatch"
    /\ di <= Len(pollResult)
    /\ LET obj == pollResult[di] IN
       \/ /\ obj \in pollCleared                 \* events == 0: skip
          /\ di' = di + 1
          /\ UNCHANGED <<lpc, ctx, cur, locked, wake, pollResult, pollCleared>>
       \/ /\ obj \notin pollCleared /\ quit       \* if (quit) break;
          /\ lpc' = "exit"
          /\ pollResult' = <<>> /\ pollCleared' = {}
          /\ UNCHANGED <<ctx, cur, locked, wake, di>>
       \/ /\ obj \notin pollCleared /\ ~quit /\ obj = WakeFd
          \* OnSocketReady(): wake_fd.Read(); mutex.lock(); HandleDeferred();
          /\ wake' = FALSE
          /\ locked' = TRUE
          /\ ctx' = "socket"
          /\ lpc' = "handle"
          /\ UNCHANGED <<cur, di, pollResult, pollCleared>>
       \/ /\ obj \notin pollCleared /\ ~quit /\ obj \in Sockets
          /\ cur' = obj
          /\ lpc' = "sockrun"
          /\ UNCHANGED <<ctx, locked, wake, di, pollResult, pollCleared>>
    /\ UNCHANGED <<busy, again, quit, deferred, pending, timers, idle,
                   registered, tpc, adds>>

\* m->Dispatch(events): the socket's callback.
SocketRun ==
    /\ lpc = "sockrun"
    /\ \E e \in Effects : CallbackEffect(e)
    /\ lpc' = "dispatch"
    /\ di' = di + 1
    /\ cur' = NoObj
    /\ UNCHANGED <<ctx, locked, busy, pollResult, tpc, adds>>

\* poll_result.Reset(); } while (!quit);
DispatchDone ==
    /\ lpc = "dispatch"
    /\ di > Len(pollResult)
    /\ pollResult' = <<>> /\ pollCleared' = {}
    /\ lpc' = IF quit THEN "exit" ELSE "top"
    /\ UNCHANGED <<ctx, cur, locked, busy, again, quit, wake, deferred,
                   pending, timers, idle, registered, di, tpc, adds>>

-----------------------------------------------------------------------------
(* Foreign threads.                                                        *)

\* AddDeferred() from another thread: the locked part; the wake_fd write,
\* if decided, follows after the unlock.
ForeignAddDeferred(t) ==
    /\ tpc[t] = "idle" /\ ~locked /\ adds < MaxAdds
    /\ \E m \in Monitors :
         /\ AddDeferredLocked(m)
         /\ tpc' = [tpc EXCEPT ![t] = IF ~pending[m] /\ MustWake
                                      THEN "wake" ELSE "idle"]
    /\ adds' = adds + 1
    /\ UNCHANGED <<lpc, ctx, cur, locked, busy, quit, wake, timers, idle,
                   registered, pollResult, pollCleared, di>>

\* if (must_wake) wake_fd.Write();
ForeignWake(t) ==
    /\ tpc[t] = "wake"
    /\ wake' = TRUE
    /\ tpc' = [tpc EXCEPT ![t] = "idle"]
    /\ UNCHANGED <<lpc, ctx, cur, locked, busy, again, quit, deferred,
                   pending, timers, idle, registered, pollResult, pollCleared,
                   di, adds>>

\* RemoveDeferred() from another thread.
ForeignRemoveDeferred(t) ==
    /\ tpc[t] = "idle" /\ ~locked
    /\ \E m \in Monitors : RemoveDeferredLocked(m)
    /\ UNCHANGED <<lpc, ctx, cur, locked, busy, again, quit, wake, timers,
                   idle, registered, pollResult, pollCleared, di, tpc, adds>>

\* Break() from another thread: quit.exchange(true), then the wake write.
ForeignBreak(t) ==
    /\ tpc[t] = "idle"
    /\ quit' = TRUE
    /\ tpc' = [tpc EXCEPT ![t] = IF BreakWrites THEN "breakwake" ELSE "idle"]
    /\ UNCHANGED <<lpc, ctx, cur, locked, busy, again, wake, deferred,
                   pending, timers, idle, registered, pollResult, pollCleared,
                   di, adds>>

ForeignBreakWake(t) ==
    /\ tpc[t] = "breakwake"
    /\ wake' = TRUE
    /\ tpc' = [tpc EXCEPT ![t] = "idle"]
    /\ UNCHANGED <<lpc, ctx, cur, locked, busy, again, quit, deferred,
                   pending, timers, idle, registered, pollResult, pollCleared,
                   di, adds>>

-----------------------------------------------------------------------------

LoopStep ==
    \/ LoopTop \/ TimerDue \/ TimersDone \/ TimerRun \/ IdlePop \/ IdleRun
    \/ IdleDone \/ HandleDeferred \/ DeferredRun \/ HandleDone \/ PollWake
    \/ SetBusy \/ DispatchEntry \/ SocketRun \/ DispatchDone

Next ==
    \/ LoopStep
    \/ PollExternal
    \/ \E t \in Threads :
         \/ ForeignAddDeferred(t) \/ ForeignWake(t)
         \/ ForeignRemoveDeferred(t)
         \/ ForeignBreak(t) \/ ForeignBreakWake(t)

(* The loop thread runs whenever it is not blocked in poll(); a foreign    *)
(* thread that has decided to write wake_fd does so.  A peer making a      *)
(* socket ready (PollExternal) is not assumed to ever happen.             *)
Fairness ==
    /\ WF_vars(LoopStep)
    /\ \A t \in Threads : WF_vars(ForeignWake(t)) /\ WF_vars(ForeignBreakWake(t))

Spec == Init /\ [][Next]_vars /\ Fairness

-----------------------------------------------------------------------------
(* Properties.                                                             *)

(* No lost wake-up (AddDeferred(), lines 246-254): whenever the loop      *)
(* thread is about to block in poll() while a DeferredMonitor is queued,   *)
(* wake_fd is readable or a thread that queued one is about to write it,   *)
(* so the queued monitor cannot be left waiting for an unrelated event.   *)
(* This is what the "must_wake = !busy && deferred.empty()" shortcut has   *)
(* to preserve against the loop's own busy/again bookkeeping.             *)
NoLostWakeup ==
    (lpc = "poll" /\ deferred # <<>> /\ ~quit)
        => (wake \/ \E t \in Threads : tpc[t] = "wake")

(* A socket cancelled by a callback earlier in the same dispatch          *)
(* iteration is not dispatched (RemoveFD()/Abandon() clear its            *)
(* poll_result entries, lines 60 and 69; the socket loop skips entries     *)
(* with no events, line 211).                                              *)
NoDispatchAfterCancel ==
    lpc = "sockrun" => cur \in registered

(* The deferred queue and the pending flags agree (the assertions at      *)
(* lines 262-263, 270 and 282): every monitor is queued at most once, and  *)
(* exactly while it is pending.  This must survive HandleDeferred()        *)
(* running a popped monitor with the mutex released (line 286) while      *)
(* other threads and the callback itself add and remove it: a             *)
(* RemoveDeferred() in that window finds it not pending and returns, and  *)
(* an AddDeferred() queues it once more.                                   *)
PendingMatchesQueue ==
    /\ IsInjective(deferred)
    /\ \A m \in Monitors : pending[m] <=> m \in ToSet(deferred)

(* A scheduled DeferredMonitor is run (or cancelled) unless the loop is   *)
(* told to quit.  The loop clears `again` at line 148 without the mutex,   *)
(* racing the AddDeferred() of another thread that sets it under the       *)
(* mutex (line 250) while busy is still true, so no wake_fd write is due.  *)
(* Either write may win; what keeps the monitor from being stranded is     *)
(* that Run() always enters HandleDeferred() (line 187) and looks at the   *)
(* queue itself, never at the racy flag.  A timer or idle callback that   *)
(* re-arms itself at once keeps Run() in its timer or idle phase for ever  *)
(* (now is not re-read inside the timer loop, lines 155-171), so the       *)
(* promise is made for runs in which those phases end.                     *)
CallbackPhases == {"timers", "timerrun", "idle", "idlerun"}

DeferredRuns ==
    []<>(lpc \notin CallbackPhases)
        => \A m \in Monitors : pending[m] ~> (~pending[m] \/ quit)

(* Break() from any thread makes Run() return (quit is checked after every *)
(* callback and before every dispatch, and the first Break() writes        *)
(* wake_fd so a blocked poll() returns).                                   *)
Termination ==
    quit ~> (lpc \in {"done", "exit"})

(* Run() leaves its do-while loop only with busy set (the assertion at    *)
(* line 225).  The "continue" at line 196 jumps to the loop condition     *)
(* after busy was cleared at line 188, so a Break() that lands between    *)
(* the unlock at line 190 and the condition leaves the loop with busy     *)
(* false.                                                                  *)
LoopExitBusy ==
    lpc = "exit" => busy

=============================================================================
