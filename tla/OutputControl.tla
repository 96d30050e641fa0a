--------------------------- MODULE OutputControl ---------------------------
(***************************************************************************)
(* The client side of an audio output's command slot, as implemented in    *)
(* src/output/OutputControl.cxx, for several outputs driven by one caller  *)
(* (the player thread through the output group), together with the output *)
(* threads the calls talk to.                                              *)
(*                                                                         *)
(* Each AudioOutput has a mutex, a condition variable `cond` the output    *)
(* thread sleeps on, and a one-slot `command`.  All outputs share one      *)
(* `audio_output_client_notify`, a sticky event the caller sleeps on in    *)
(* WaitForCommand().  Every locked section of the caller is one step.      *)
(*                                                                         *)
(* The output thread (OutputThread.cxx) is not part of this source tree;   *)
(* its reaction to each command follows the state table of the spec,       *)
(* section 4.5: OPEN may fail and then starts the fail timer; PAUSE and    *)
(* play may fail and close the device; CANCEL drops queued data.           *)
(*                                                                         *)
(* Time is the monotonic clock in seconds; PeriodClock::Check(d) holds     *)
(* when d has passed since the fail timer was last updated.                *)
(***************************************************************************)
EXTENDS Integers, FiniteSets

CONSTANTS
    Outputs,      \* the configured AudioOutput objects
    Formats,      \* audio formats the player may request
    NoFmt,        \* request.audio_format before the first Open()
    HasEnable,    \* plugin.enable != nullptr
    HasDisable,   \* plugin.disable != nullptr
    ReopenAfter,  \* REOPEN_AFTER in seconds (10)
    TimeStep,     \* seconds the clock advances in one step
    MaxTime,      \* bound on the clock
    NoTime        \* an undefined PeriodClock

ASSUME NoFmt \notin Formats
ASSUME HasEnable \in BOOLEAN /\ HasDisable \in BOOLEAN
ASSUME {ReopenAfter, TimeStep, MaxTime} \subseteq Nat /\ NoTime \notin Nat

Commands == {"NONE", "ENABLE", "DISABLE", "OPEN", "CLOSE", "PAUSE", "DRAIN",
             "CANCEL", "KILL"}

\* The output thread: not started, at the top of its loop, inside its
\* playback loop (in_playback_loop), sleeping on cond, or returned after
\* KILL and not yet joined.
ThreadStates == {"none", "run", "play", "wait", "dead"}

Times == 0..MaxTime

VARIABLES
    command,        \* AudioOutput::command
    thread,         \* the output thread (see ThreadStates)
    open,           \* AudioOutput::open
    pause,          \* AudioOutput::pause
    reallyEnabled,  \* AudioOutput::really_enabled
    enabled,        \* AudioOutput::enabled (set by the user)
    allowPlay,      \* AudioOutput::allow_play
    wokenForPlay,   \* AudioOutput::woken_for_play
    failTimer,      \* AudioOutput::fail_timer: NoTime or when it was updated
    reqFormat,      \* AudioOutput::request.audio_format
    chunks,         \* the pipe holds chunks this output has not played yet
    notify,         \* audio_output_client_notify has a pending signal
    cpc,            \* the caller: "idle", "wait" (checking), "sleep"
    cout,           \* the output the caller waits for
    cop,            \* the call the caller is in: "open", "close", "kill"
    destroyed,      \* outputs passed to BeginDestroy()
    alwaysOn,       \* the outputs configured with always_on (fixed)
    now,            \* the monotonic clock
    lastSkip        \* ghost: seconds since the failure, at the last
                    \* LockUpdate() that did not reopen; -1 if none

vars == <<command, thread, open, pause, reallyEnabled, enabled, allowPlay,
          wokenForPlay, failTimer, reqFormat, chunks, notify, cpc, cout, cop,
          destroyed, alwaysOn, now, lastSkip>>

outVars == <<command, thread, open, pause, reallyEnabled, enabled, allowPlay,
             wokenForPlay, failTimer, reqFormat, chunks>>

TypeOK ==
    /\ command \in [Outputs -> Commands]
    /\ thread \in [Outputs -> ThreadStates]
    /\ open \in [Outputs -> BOOLEAN] /\ pause \in [Outputs -> BOOLEAN]
    /\ reallyEnabled \in [Outputs -> BOOLEAN]
    /\ enabled \in [Outputs -> BOOLEAN]
    /\ allowPlay \in [Outputs -> BOOLEAN]
    /\ wokenForPlay \in [Outputs -> BOOLEAN]
    /\ failTimer \in [Outputs -> Times \cup {NoTime}]
    /\ reqFormat \in [Outputs -> Formats \cup {NoFmt}]
    /\ chunks \in [Outputs -> BOOLEAN]
    /\ notify \in BOOLEAN
    /\ cpc \in {"idle", "wait", "sleep"}
    /\ cout \in Outputs /\ cop \in {"open", "close", "kill"}
    /\ destroyed \subseteq Outputs
    /\ alwaysOn \subseteq Outputs
    /\ now \in Times
    /\ lastSkip \in {-1} \cup Times
    \* a thread exists whenever a command is pending
    /\ \A o \in Outputs : command[o] # "NONE" => thread[o] \in {"run", "play", "wait"}

\* audio_output_new(): configured, enabled by default, no thread yet.
Init ==
    /\ command = [o \in Outputs |-> "NONE"]
    /\ thread = [o \in Outputs |-> "none"]
    /\ open = [o \in Outputs |-> FALSE]
    /\ pause = [o \in Outputs |-> FALSE]
    /\ reallyEnabled = [o \in Outputs |-> FALSE]
    /\ enabled = [o \in Outputs |-> TRUE]
    /\ allowPlay = [o \in Outputs |-> TRUE]
    /\ wokenForPlay = [o \in Outputs |-> FALSE]
    /\ failTimer = [o \in Outputs |-> NoTime]
    /\ reqFormat = [o \in Outputs |-> NoFmt]
    /\ chunks = [o \in Outputs |-> FALSE]
    /\ notify = FALSE
    /\ cpc = "idle" /\ cop = "open"
    /\ cout = CHOOSE o \in Outputs : TRUE
    /\ destroyed = {}
    /\ alwaysOn \in SUBSET Outputs
    /\ now = 0
    /\ lastSkip = -1

-----------------------------------------------------------------------------
(* Helpers of the caller.                                                  *)

\* cond.signal(): wakes the output thread if it sleeps on cond.
Signal(o) == thread' = [thread EXCEPT ![o] = IF @ = "wait" THEN "run" ELSE @]

\* Mutant: the command is stored but the output thread is not signalled.
CommandAsyncNoSignal(o, cmd) ==
    /\ command[o] = "NONE"
    /\ command' = [command EXCEPT ![o] = cmd]
    /\ UNCHANGED thread

\* CommandAsync() (lines 50-56).  Its assert(IsCommandFinished()) is the
\* caller's obligation, so it is an enabling condition here.
CommandAsync(o, cmd) ==
    /\ command[o] = "NONE"
    /\ command' = [command EXCEPT ![o] = cmd]
    /\ Signal(o)

\* Mutant: the thread is not started before the command is stored.
StartAndCommandNoStart(o, cmd) == CommandAsync(o, cmd)

\* if (!thread.IsDefined()) StartThread(); CommandAsync(cmd);
StartAndCommand(o, cmd) ==
    IF thread[o] = "none"
    THEN /\ command[o] = "NONE"
         /\ command' = [command EXCEPT ![o] = cmd]
         /\ thread' = [thread EXCEPT ![o] = "run"]
    ELSE CommandAsync(o, cmd)

\* The caller enters WaitForCommand() for output o (CommandWait()).
AwaitCommand(o, op) == cpc' = "wait" /\ cout' = o /\ cop' = op

\* PeriodClock::Check(d): d has elapsed since the timer was updated.
Check(o, d) == failTimer[o] # NoTime /\ now >= failTimer[o] + d

\* The argument LockUpdate() passes to Check() (line 169).
ReopenCheck == ReopenAfter * 1000

-----------------------------------------------------------------------------
(* The calls.  Each one leaves destroyed, now and lastSkip to its caller.  *)

\* Mutant: Open() without fail_timer.Reset().
OpenNoReset(o, f) ==
    /\ allowPlay[o]
    /\ \/ /\ open[o] /\ f = reqFormat[o] /\ ~pause[o]
          /\ UNCHANGED <<command, thread, reqFormat, cpc, cout, cop>>
       \/ /\ ~(open[o] /\ f = reqFormat[o] /\ ~pause[o])
          /\ reqFormat' = [reqFormat EXCEPT ![o] = f]
          /\ StartAndCommand(o, "OPEN")
          /\ AwaitCommand(o, "open")
    /\ UNCHANGED <<open, pause, reallyEnabled, enabled, allowPlay,
                   wokenForPlay, chunks, notify, failTimer>>

\* Open() (lines 107-142): an open, unpaused output with the same format
\* is left alone; otherwise the format is requested and OPEN is awaited.
\* (mixer_open() after a successful open is not modelled.)
Open(o, f) ==
    /\ allowPlay[o]
    /\ failTimer' = [failTimer EXCEPT ![o] = NoTime]
    /\ \/ /\ open[o] /\ f = reqFormat[o] /\ ~pause[o]
          /\ UNCHANGED <<command, thread, reqFormat, cpc, cout, cop>>
       \/ /\ ~(open[o] /\ f = reqFormat[o] /\ ~pause[o])
          /\ reqFormat' = [reqFormat EXCEPT ![o] = f]
          /\ StartAndCommand(o, "OPEN")
          /\ AwaitCommand(o, "open")
    /\ UNCHANGED <<open, pause, reallyEnabled, enabled, allowPlay,
                   wokenForPlay, chunks, notify>>

\* CloseWait() (lines 144-158).
CloseWait(o) ==
    /\ allowPlay[o]
    /\ \/ /\ open[o]
          /\ CommandAsync(o, "CLOSE")
          /\ AwaitCommand(o, "close")
          /\ UNCHANGED failTimer
       \/ /\ ~open[o]
          /\ failTimer' = [failTimer EXCEPT ![o] = NoTime]
          /\ UNCHANGED <<command, thread, cpc, cout, cop>>
    /\ UNCHANGED <<open, pause, reallyEnabled, enabled, allowPlay,
                   wokenForPlay, reqFormat, chunks, notify>>

\* LockPauseAsync() (lines 192-205); mixer_auto_close() is not modelled.
PauseAsync(o) ==
    /\ allowPlay[o]
    /\ \/ open[o] /\ CommandAsync(o, "PAUSE")
       \/ ~open[o] /\ UNCHANGED <<command, thread>>
    /\ UNCHANGED <<open, pause, reallyEnabled, enabled, allowPlay,
                   wokenForPlay, failTimer, reqFormat, chunks, notify,
                   cpc, cout, cop>>


\* A public call starts with the caller running and the output alive.
Callable(o) == cpc = "idle" /\ o \notin destroyed

\* Mutant: the plugin.enable == nullptr test is dropped, so an output
\* without a thread is marked enabled without ever running enable().
EnableAsyncNoCheck(o) ==
    /\ Callable(o)
    /\ \/ /\ thread[o] = "none"
          /\ reallyEnabled' = [reallyEnabled EXCEPT ![o] = TRUE]
          /\ UNCHANGED <<command, thread>>
       \/ /\ thread[o] # "none"
          /\ CommandAsync(o, "ENABLE")
          /\ UNCHANGED reallyEnabled
    /\ UNCHANGED <<open, pause, enabled, allowPlay, wokenForPlay, failTimer,
                   reqFormat, chunks, notify, cpc, cout, cop, destroyed, alwaysOn, now,
                   lastSkip>>

\* EnableAsync() (lines 73-88).
EnableAsync(o) ==
    /\ Callable(o)
    /\ \/ /\ thread[o] = "none" /\ ~HasEnable
          /\ reallyEnabled' = [reallyEnabled EXCEPT ![o] = TRUE]
          /\ UNCHANGED <<command, thread>>
       \/ /\ thread[o] # "none" \/ HasEnable
          /\ StartAndCommand(o, "ENABLE")
          /\ UNCHANGED reallyEnabled
    /\ UNCHANGED <<open, pause, enabled, allowPlay, wokenForPlay, failTimer,
                   reqFormat, chunks, notify, cpc, cout, cop, destroyed, alwaysOn, now,
                   lastSkip>>

\* DisableAsync() (lines 91-105).
DisableAsync(o) ==
    /\ Callable(o)
    /\ \/ /\ thread[o] = "none" /\ ~HasDisable
          /\ reallyEnabled' = [reallyEnabled EXCEPT ![o] = FALSE]
          /\ UNCHANGED <<command, thread>>
       \/ /\ thread[o] = "none" /\ HasDisable
          /\ UNCHANGED <<reallyEnabled, command, thread>>
       \/ /\ thread[o] # "none"
          /\ CommandAsync(o, "DISABLE")
          /\ UNCHANGED reallyEnabled
    /\ UNCHANGED <<open, pause, enabled, allowPlay, wokenForPlay, failTimer,
                   reqFormat, chunks, notify, cpc, cout, cop, destroyed, alwaysOn, now,
                   lastSkip>>

\* LockUpdate() (lines 160-176): reopen unless the fail timer is still
\* running, or close a disabled output.
LockUpdate(o, f, force) ==
    /\ Callable(o)
    /\ \/ /\ enabled[o] /\ reallyEnabled[o]
          /\ force \/ failTimer[o] = NoTime \/ Check(o, ReopenCheck)
          /\ Open(o, f)
          /\ UNCHANGED lastSkip
       \/ /\ enabled[o] /\ reallyEnabled[o]
          /\ ~(force \/ failTimer[o] = NoTime \/ Check(o, ReopenCheck))
          /\ lastSkip' = now - failTimer[o]
          /\ UNCHANGED outVars /\ UNCHANGED <<notify, cpc, cout, cop>>
       \/ /\ ~(enabled[o] /\ reallyEnabled[o]) /\ open[o]
          /\ CloseWait(o)
          /\ UNCHANGED lastSkip
       \/ /\ ~(enabled[o] /\ reallyEnabled[o]) /\ ~open[o]
          /\ UNCHANGED outVars /\ UNCHANGED <<notify, cpc, cout, cop, lastSkip>>
    /\ UNCHANGED <<destroyed, alwaysOn, now>>

\* Mutant: woken_for_play is set but the output thread is not signalled.
LockPlayNoSignal(o) ==
    /\ Callable(o) /\ allowPlay[o]
    /\ \/ /\ open[o] /\ thread[o] # "play" /\ ~wokenForPlay[o]
          /\ wokenForPlay' = [wokenForPlay EXCEPT ![o] = TRUE]
       \/ /\ ~(open[o] /\ thread[o] # "play" /\ ~wokenForPlay[o])
          /\ UNCHANGED wokenForPlay
    /\ UNCHANGED <<command, thread, open, pause, reallyEnabled, enabled,
                   allowPlay, failTimer, reqFormat, chunks, notify, cpc, cout,
                   cop, destroyed, alwaysOn, now, lastSkip>>

\* LockPlay() (lines 179-189): wake the thread for new chunks unless it is
\* in its playback loop or was already woken.
LockPlay(o) ==
    /\ Callable(o) /\ allowPlay[o]
    /\ \/ /\ open[o] /\ thread[o] # "play" /\ ~wokenForPlay[o]
          /\ wokenForPlay' = [wokenForPlay EXCEPT ![o] = TRUE]
          /\ Signal(o)
       \/ /\ ~(open[o] /\ thread[o] # "play" /\ ~wokenForPlay[o])
          /\ UNCHANGED <<wokenForPlay, thread>>
    /\ UNCHANGED <<command, open, pause, reallyEnabled, enabled, allowPlay,
                   failTimer, reqFormat, chunks, notify, cpc, cout, cop,
                   destroyed, alwaysOn, now, lastSkip>>

LockPauseAsync(o) ==
    /\ Callable(o)
    /\ PauseAsync(o)
    /\ UNCHANGED <<destroyed, alwaysOn, now, lastSkip>>

\* LockDrainAsync() (lines 208-215).
LockDrainAsync(o) ==
    /\ Callable(o) /\ allowPlay[o]
    /\ \/ open[o] /\ CommandAsync(o, "DRAIN")
       \/ ~open[o] /\ UNCHANGED <<command, thread>>
    /\ UNCHANGED <<open, pause, reallyEnabled, enabled, allowPlay,
                   wokenForPlay, failTimer, reqFormat, chunks, notify, cpc,
                   cout, cop, destroyed, alwaysOn, now, lastSkip>>

\* LockCancelAsync() (lines 218-226): play is disallowed until
\* LockAllowPlay().
LockCancelAsync(o) ==
    /\ Callable(o)
    /\ \/ /\ open[o]
          /\ allowPlay' = [allowPlay EXCEPT ![o] = FALSE]
          /\ CommandAsync(o, "CANCEL")
       \/ ~open[o] /\ UNCHANGED <<allowPlay, command, thread>>
    /\ UNCHANGED <<open, pause, reallyEnabled, enabled, wokenForPlay,
                   failTimer, reqFormat, chunks, notify, cpc, cout, cop,
                   destroyed, alwaysOn, now, lastSkip>>

\* LockAllowPlay() (lines 229-236).
LockAllowPlay(o) ==
    /\ Callable(o)
    /\ allowPlay' = [allowPlay EXCEPT ![o] = TRUE]
    /\ \/ open[o] /\ Signal(o)
       \/ ~open[o] /\ UNCHANGED thread
    /\ UNCHANGED <<command, open, pause, reallyEnabled, enabled,
                   wokenForPlay, failTimer, reqFormat, chunks, notify, cpc,
                   cout, cop, destroyed, alwaysOn, now, lastSkip>>

\* LockRelease() (lines 239-245): always_on outputs pause, others close.
LockRelease(o) ==
    /\ Callable(o)
    /\ \/ o \in alwaysOn /\ PauseAsync(o)
       \/ o \notin alwaysOn /\ CloseWait(o)
    /\ UNCHANGED <<destroyed, alwaysOn, now, lastSkip>>

\* LockCloseWait() (lines 248-254).
LockCloseWait(o) ==
    /\ Callable(o)
    /\ CloseWait(o)
    /\ UNCHANGED <<destroyed, alwaysOn, now, lastSkip>>

\* StopThread() (lines 257-264): KILL, wait, then join.
StopThread(o) ==
    /\ Callable(o) /\ thread[o] # "none" /\ allowPlay[o]
    /\ CommandAsync(o, "KILL")
    /\ AwaitCommand(o, "kill")
    /\ UNCHANGED <<open, pause, reallyEnabled, enabled, allowPlay,
                   wokenForPlay, failTimer, reqFormat, chunks, notify,
                   destroyed, alwaysOn, now, lastSkip>>

\* BeginDestroy() (lines 267-276): KILL without waiting.
BeginDestroy(o) ==
    /\ Callable(o)
    /\ \/ thread[o] # "none" /\ CommandAsync(o, "KILL")
       \/ thread[o] = "none" /\ UNCHANGED <<command, thread>>
    /\ destroyed' = destroyed \cup {o}
    /\ UNCHANGED <<open, pause, reallyEnabled, enabled, allowPlay,
                   wokenForPlay, failTimer, reqFormat, chunks, notify, cpc,
                   cout, cop, alwaysOn, now, lastSkip>>

\* FinishDestroy() (lines 279-285): join the thread once it has returned.
FinishDestroy(o) ==
    /\ cpc = "idle" /\ o \in destroyed /\ thread[o] = "dead"
    /\ thread' = [thread EXCEPT ![o] = "none"]
    /\ UNCHANGED <<command, open, pause, reallyEnabled, enabled, allowPlay,
                   wokenForPlay, failTimer, reqFormat, chunks, notify, cpc,
                   cout, cop, destroyed, alwaysOn, now, lastSkip>>

-----------------------------------------------------------------------------
(* WaitForCommand() (lines 40-47).                                         *)

\* while (!IsCommandFinished()) ... ; after StopThread()'s KILL, Join().
WaitCheck ==
    /\ cpc = "wait"
    /\ \/ /\ command[cout] = "NONE"
          /\ cpc' = "idle"
          /\ thread' = IF cop = "kill" THEN [thread EXCEPT ![cout] = "none"]
                                       ELSE thread
       \/ /\ command[cout] # "NONE"
          /\ cpc' = "sleep"
          /\ UNCHANGED thread
    /\ UNCHANGED <<command, open, pause, reallyEnabled, enabled, allowPlay,
                   wokenForPlay, failTimer, reqFormat, chunks, notify, cout,
                   cop, destroyed, alwaysOn, now, lastSkip>>

\* Mutant: "if" instead of "while": the caller returns after one wake-up.
WaitWakeOnce ==
    /\ cpc = "sleep" /\ notify
    /\ notify' = FALSE
    /\ cpc' = "idle"
    /\ UNCHANGED <<command, thread, open, pause, reallyEnabled, enabled,
                   allowPlay, wokenForPlay, failTimer, reqFormat, chunks, cout,
                   cop, destroyed, alwaysOn, now, lastSkip>>

\* mutex.unlock(); audio_output_client_notify.Wait(); mutex.lock();
WaitWake ==
    /\ cpc = "sleep" /\ notify
    /\ notify' = FALSE
    /\ cpc' = "wait"
    /\ UNCHANGED <<command, thread, open, pause, reallyEnabled, enabled,
                   allowPlay, wokenForPlay, failTimer, reqFormat, chunks, cout,
                   cop, destroyed, alwaysOn, now, lastSkip>>

-----------------------------------------------------------------------------
(* The output thread (OutputThread.cxx, not in this tree; spec 4.5).       *)

\* The thread plays when the device is open, not paused, play is allowed
\* and the pipe has a chunk for it.
CanPlay(o) == open[o] /\ ~pause[o] /\ allowPlay[o] /\ chunks[o]

\* The device is closed by the thread; failed says whether the fail timer
\* is started (spec: "if open or play throws, set FAILED with the current
\* monotonic time").
CloseDevice(o, failed) ==
    /\ open' = [open EXCEPT ![o] = FALSE]
    /\ pause' = [pause EXCEPT ![o] = FALSE]
    /\ failTimer' = IF failed THEN [failTimer EXCEPT ![o] = now] ELSE failTimer

\* The effect of one command on the device, by command.
Perform(o, cmd) ==
    \/ /\ cmd = "ENABLE"
       /\ \E ok \in BOOLEAN :
            reallyEnabled' = [reallyEnabled EXCEPT ![o] = @ \/ ok]
       /\ UNCHANGED <<open, pause, failTimer, chunks>>
    \/ /\ cmd \in {"DISABLE", "KILL"}
       /\ CloseDevice(o, FALSE)
       /\ reallyEnabled' = [reallyEnabled EXCEPT ![o] = FALSE]
       /\ UNCHANGED chunks
    \/ /\ cmd = "OPEN"
       /\ \/ /\ open' = [open EXCEPT ![o] = TRUE]
             /\ pause' = [pause EXCEPT ![o] = FALSE]
             /\ UNCHANGED failTimer
          \/ CloseDevice(o, TRUE)
       /\ UNCHANGED <<reallyEnabled, chunks>>
    \/ /\ cmd = "CLOSE"
       /\ CloseDevice(o, FALSE)
       /\ UNCHANGED <<reallyEnabled, chunks>>
    \/ /\ cmd = "PAUSE"
       /\ \/ /\ pause' = [pause EXCEPT ![o] = TRUE]
             /\ UNCHANGED <<open, failTimer>>
          \/ CloseDevice(o, FALSE)
       /\ UNCHANGED <<reallyEnabled, chunks>>
    \/ /\ cmd = "DRAIN"
       /\ UNCHANGED <<open, pause, failTimer, reallyEnabled, chunks>>
    \/ /\ cmd = "CANCEL"
       /\ chunks' = [chunks EXCEPT ![o] = FALSE]
       /\ pause' = [pause EXCEPT ![o] = FALSE]
       /\ UNCHANGED <<open, failTimer, reallyEnabled>>

\* The thread takes the command, performs it, and reports completion:
\* command = NONE and audio_output_client_notify.Signal().  After KILL it
\* returns.
ThreadCommand(o) ==
    /\ thread[o] = "run" /\ command[o] # "NONE"
    /\ Perform(o, command[o])
    /\ command' = [command EXCEPT ![o] = "NONE"]
    /\ thread' = [thread EXCEPT ![o] = IF command[o] = "KILL" THEN "dead" ELSE "run"]
    /\ notify' = TRUE
    /\ UNCHANGED <<enabled, allowPlay, wokenForPlay, reqFormat, cpc, cout, cop,
                   destroyed, alwaysOn, now, lastSkip>>

\* The playback loop takes the chunks in the pipe and plays them with the
\* mutex released (in_playback_loop).
ThreadStartPlay(o) ==
    /\ thread[o] = "run" /\ command[o] = "NONE" /\ CanPlay(o)
    /\ chunks' = [chunks EXCEPT ![o] = FALSE]
    /\ thread' = [thread EXCEPT ![o] = "play"]
    /\ UNCHANGED <<command, open, pause, reallyEnabled, enabled, allowPlay,
                   wokenForPlay, failTimer, reqFormat, notify, cpc, cout, cop,
                   destroyed, alwaysOn, now, lastSkip>>

\* The device's play() returns, or fails and the device is closed.
ThreadPlayed(o) ==
    /\ thread[o] = "play"
    /\ thread' = [thread EXCEPT ![o] = "run"]
    /\ \/ UNCHANGED <<open, pause, failTimer>>
       \/ CloseDevice(o, TRUE)
    /\ UNCHANGED <<command, reallyEnabled, enabled, allowPlay, wokenForPlay,
                   reqFormat, chunks, notify, cpc, cout, cop, destroyed, alwaysOn, now,
                   lastSkip>>

\* Nothing to do: woken_for_play = false; cond.wait(mutex).
ThreadWait(o) ==
    /\ thread[o] = "run" /\ command[o] = "NONE" /\ ~CanPlay(o)
    /\ thread' = [thread EXCEPT ![o] = "wait"]
    /\ wokenForPlay' = [wokenForPlay EXCEPT ![o] = FALSE]
    /\ UNCHANGED <<command, open, pause, reallyEnabled, enabled, allowPlay,
                   failTimer, reqFormat, chunks, notify, cpc, cout, cop,
                   destroyed, alwaysOn, now, lastSkip>>

-----------------------------------------------------------------------------
(* The environment: the player pushes chunks into the pipe, the user      *)
(* toggles "enabled", the clock advances.                                  *)

PushChunk ==
    /\ cpc = "idle" /\ destroyed # Outputs
    /\ chunks' = [o \in Outputs |-> TRUE]
    /\ UNCHANGED <<command, thread, open, pause, reallyEnabled, enabled,
                   allowPlay, wokenForPlay, failTimer, reqFormat, notify, cpc,
                   cout, cop, destroyed, alwaysOn, now, lastSkip>>

SetEnabled(o) ==
    /\ cpc = "idle" /\ o \notin destroyed
    /\ enabled' = [enabled EXCEPT ![o] = ~@]
    /\ UNCHANGED <<command, thread, open, pause, reallyEnabled, allowPlay,
                   wokenForPlay, failTimer, reqFormat, chunks, notify, cpc,
                   cout, cop, destroyed, alwaysOn, now, lastSkip>>

Tick ==
    /\ now + TimeStep <= MaxTime
    /\ now' = now + TimeStep
    /\ UNCHANGED <<command, thread, open, pause, reallyEnabled, enabled,
                   allowPlay, wokenForPlay, failTimer, reqFormat, chunks,
                   notify, cpc, cout, cop, destroyed, alwaysOn, lastSkip>>

-----------------------------------------------------------------------------

Caller ==
    \E o \in Outputs :
        \/ EnableAsync(o) \/ DisableAsync(o)
        \/ \E f \in Formats, force \in BOOLEAN : LockUpdate(o, f, force)
        \/ LockPlay(o) \/ LockPauseAsync(o) \/ LockDrainAsync(o)
        \/ LockCancelAsync(o) \/ LockAllowPlay(o) \/ LockRelease(o)
        \/ LockCloseWait(o) \/ StopThread(o) \/ BeginDestroy(o)
        \/ FinishDestroy(o)

OutputThread(o) ==
    ThreadCommand(o) \/ ThreadStartPlay(o) \/ ThreadPlayed(o) \/ ThreadWait(o)

Next ==
    \/ Caller
    \/ WaitCheck \/ WaitWake
    \/ \E o \in Outputs : OutputThread(o)
    \/ PushChunk \/ (\E o \in Outputs : SetEnabled(o)) \/ Tick

(* Output threads are OS threads that run whenever they are not blocked,  *)
(* and a caller blocked in WaitForCommand() runs again once notified.      *)
(* The caller's own calls, the user and the clock are not assumed to act. *)
Fairness ==
    /\ WF_vars(WaitCheck) /\ WF_vars(WaitWake)
    /\ \A o \in Outputs : WF_vars(OutputThread(o))

Spec == Init /\ [][Next]_vars /\ Fairness

-----------------------------------------------------------------------------
(* Properties.                                                             *)

(* An open output has no running fail timer: CloseWait() and             *)
(* LockCloseWait() assert it (lines 152 and 250).  The output thread only  *)
(* starts the timer when the device fails and is closed; what keeps the    *)
(* assertion true after a forced reopen of a failed output is the          *)
(* fail_timer.Reset() at the start of Open() (line 113).                  *)
FailTimerClearedWhenOpen ==
    \A o \in Outputs : open[o] => failTimer[o] = NoTime

(* An output whose plugin has disable() is never really enabled without   *)
(* an output thread: DisableAsync() asserts it (line 99) before returning  *)
(* without a command.  It holds only because EnableAsync() marks a         *)
(* thread-less output enabled just when the plugin has no enable() (line   *)
(* 77) and otherwise leaves it to the thread's ENABLE, and because every   *)
(* way the thread ends (StopThread(), BeginDestroy() and FinishDestroy())  *)
(* goes through KILL, which disables the device before the thread returns.*)
DisableFindsNoEnabledDevice ==
    \A o \in Outputs :
        (HasDisable /\ thread[o] = "none") => ~reallyEnabled[o]

(* Each output's command slot implements CommandSlot: CommandAsync()     *)
(* stores a command only in an empty slot (its assertion, line 52), the   *)
(* output thread empties it by performing the command, and a synchronous  *)
(* call (Open(), CloseWait(), StopThread()) returns only once its output's *)
(* slot is empty again, although the notification the caller sleeps on is *)
(* shared by all outputs and may carry a signal left over from an earlier  *)
(* command (WaitForCommand(), lines 40-47).                                *)
CommandChannel == INSTANCE CommandSlot
    WITH Slots <- Outputs, Commands <- Commands \ {"NONE"}, None <- "NONE",
         slot <- command,
         waiting <- [o \in Outputs |-> cpc # "idle" /\ cout = o]

ImplementsCommandSlot == CommandChannel!Spec

(* A caller blocked in WaitForCommand() eventually returns: every command  *)
(* stored by CommandAsync() wakes the output thread (line 55) and every    *)
(* completion signals the shared notify.                                   *)
CallerReturns ==
    cpc # "idle" ~> cpc = "idle"

(* Chunks announced by LockPlay() (lines 179-189) are played: once the     *)
(* output is marked woken_for_play with chunks in the pipe, the thread     *)
(* plays them unless the output stops being playable (closed, paused,      *)
(* cancelled) or the caller stores a new command first: the thread serves  *)
(* commands before chunks, so an endless stream of commands may starve     *)
(* playback.                                                               *)
PlayWakeup ==
    \A o \in Outputs :
        (chunks[o] /\ wokenForPlay[o]) ~> (~CanPlay(o) \/ command[o] # "NONE")

(* A failed output is tried again once the reopen delay has passed (the   *)
(* comment at line 33: "after a failure, wait this duration before         *)
(* automatically reopening the device"; spec 4.5 and scenario F): a        *)
(* LockUpdate() that skips the reopen does so less than REOPEN_AFTER       *)
(* after the failure.                                                      *)
ReopenAfterDelay ==
    lastSkip < ReopenAfter

=============================================================================
