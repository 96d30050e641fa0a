---------------------------- MODULE PlayerControl ----------------------------
(***************************************************************************)
(* PlayerControl (src/player/Control.cxx): the facade through which        *)
(* clients command the player thread.  Every public method takes the       *)
(* mutex, stores a command in the one command slot, signals the player and *)
(* waits on the client condition until the player has set the slot back   *)
(* to NONE (SynchronousCommand(), Control.hxx); waiting releases the       *)
(* mutex.  The player thread (Player.cxx, not under src/) is modelled from *)
(* spec sections 4.8 and 4.10: it performs the command in the slot, and    *)
(* while playing its decoder ends songs, advances to the queued song and   *)
(* fails, latching an error.                                               *)
(*                                                                         *)
(* Songs are model values.  A client's method runs under the mutex from    *)
(* the moment it takes it until it waits for a command or unlocks; each    *)
(* such stretch is one step.  Setters that only store a value without a    *)
(* command (border pause, MixRamp, the tagged song) are left out; the     *)
(* cross-fade setter is kept for its clamp.                                *)
(***************************************************************************)
EXTENDS Integers

CONSTANTS
    Clients,    \* the threads calling the facade
    Songs,      \* songs (DetachedSong objects)
    NoSong,     \* nullptr
    MaxOps,     \* bound on the methods each client calls
    MaxEvents,  \* bound on the decoder's song ends and failures
    CrossFades  \* cross-fade durations clients ask for, in seconds

VARIABLES
    command,    \* the command slot
    state,      \* PlayerState: "STOP", "PLAY", "PAUSE"
    nextSong,   \* next_song
    errorType,  \* error_type: "NONE" or "DECODER"
    lock,       \* the mutex: a client or "free"
    signalled,  \* the player's condition was signalled since it waited
    ppc,        \* the player thread: "run", "asleep", "exited"
    events,     \* decoder events so far
    cpc,        \* client: "idle", "wait", "unlock", "join", "killed"
    op,         \* client: the method it is in, [name, song, flag]
    k,          \* client: where its method goes on after the wait
    thrown,     \* client: its method is leaving by an exception
    nops,       \* client: methods called so far
    crossFade   \* cross_fade.duration

vars == <<command, state, nextSong, errorType, lock, signalled, ppc, events,
          cpc, op, k, thrown, nops, crossFade>>

Commands == {"SEEK", "QUEUE", "CANCEL", "PAUSE", "CLOSE_AUDIO", "REFRESH",
             "UPDATE_AUDIO", "EXIT"}
Methods == {"Play", "Seek", "Cancel", "Stop", "UpdateAudio", "Pause",
            "SetPause", "GetStatus", "ClearError", "Enqueue", "Kill"}
Conts == {"end", "seek", "seekdone", "kill"}

TypeOK ==
    /\ command \in Commands \cup {"NONE"}
    /\ state \in {"STOP", "PLAY", "PAUSE"}
    /\ nextSong \in Songs \cup {NoSong}
    /\ errorType \in {"NONE", "DECODER"}
    /\ lock \in Clients \cup {"free"}
    /\ signalled \in BOOLEAN
    /\ ppc \in {"run", "asleep", "exited"}
    /\ events \in 0..MaxEvents
    /\ cpc \in [Clients -> {"idle", "wait", "unlock", "join", "killed"}]
    /\ op \in [Clients -> [name : Methods, song : Songs, flag : BOOLEAN]]
    /\ k \in [Clients -> Conts]
    /\ thrown \in [Clients -> BOOLEAN]
    /\ nops \in [Clients -> 0..MaxOps]
    /\ crossFade \in Nat

AnySong == CHOOSE s \in Songs : TRUE

Init ==
    /\ command = "NONE"
    /\ state = "STOP"
    /\ nextSong = NoSong
    /\ errorType = "NONE"
    /\ lock = "free"
    /\ signalled = FALSE
    /\ ppc = "run"
    /\ events = 0
    /\ cpc = [c \in Clients |-> "idle"]
    /\ op = [c \in Clients |-> [name |-> "GetStatus", song |-> AnySong,
                                 flag |-> FALSE]]
    /\ k = [c \in Clients |-> "end"]
    /\ thrown = [c \in Clients |-> FALSE]
    /\ nops = [c \in Clients |-> 0]
    /\ crossFade = 0

(***************************************************************************)
(* The client side.                                                        *)
(***************************************************************************)

\* A mutant: the command is stored without signalling the player.
SynchronousCommandNoSignal(c, cmd, cont) ==
    /\ command' = cmd
    /\ lock' = "free"
    /\ cpc' = [cpc EXCEPT ![c] = "wait"]
    /\ k' = [k EXCEPT ![c] = cont]
    /\ UNCHANGED signalled

\* SynchronousCommand(): store the command, signal the player and wait on
\* the client condition, which releases the mutex; cont is where the
\* calling method goes on.
SynchronousCommand(c, cmd, cont) ==
    /\ command' = cmd
    /\ signalled' = TRUE
    /\ lock' = "free"
    /\ cpc' = [cpc EXCEPT ![c] = "wait"]
    /\ k' = [k EXCEPT ![c] = cont]

\* The method is done and about to release the mutex.
Finish(c) ==
    /\ lock' = c
    /\ cpc' = [cpc EXCEPT ![c] = "unlock"]
    /\ UNCHANGED <<command, signalled, k>>

\* PauseLocked() (lines 110-117): PAUSE unless the player is stopped.
PauseLocked(c) ==
    IF state # "STOP" THEN SynchronousCommand(c, "PAUSE", "end") ELSE Finish(c)

\* A mutant: LockSetPause() toggles whatever the flag says.
SetPauseToggles(st, f) == st # "STOP"

\* LockSetPause() (lines 126-145): does the flag ask for a toggle?
SetPauseWanted(st, f) ==
    \/ st = "PLAY" /\ f
    \/ st = "PAUSE" /\ ~f

\* The second half of SeekLocked() (lines 229-232): clear the error, store
\* the song and the seek time, and SEEK.
SeekIssue(c, song) ==
    /\ errorType' = "NONE"
    /\ nextSong' = song
    /\ SynchronousCommand(c, "SEEK", "seekdone")

\* A mutant: SeekLocked() without the CANCEL of a prepared song.
SeekLockedNoCancel(c, song) == SeekIssue(c, song)

\* SeekLocked() up to the SEEK (lines 215-229): a prepared next song is
\* first cancelled.
SeekLocked(c, song) ==
    IF nextSong # NoSong
    THEN /\ SynchronousCommand(c, "CANCEL", "seek")
         /\ UNCHANGED <<errorType, nextSong>>
    ELSE SeekIssue(c, song)

\* The arguments a method is called with: a song for Play, Seek and
\* Enqueue, a flag for SetPause.
Calls ==
    {a \in [name : Methods, song : Songs, flag : BOOLEAN] :
        /\ a.name # "SetPause" => ~a.flag
        /\ a.name \notin {"Play", "Seek", "Enqueue"} => a.song = AnySong}

\* LockGetStatus() (lines 154-172): a REFRESH; the snapshot it copies
\* afterwards is not modelled.
LockGetStatus(c) == SynchronousCommand(c, "REFRESH", "end")

\* LockClearError() (lines 184-189).
LockClearError(c) ==
    /\ errorType' = "NONE"
    /\ Finish(c)
    /\ UNCHANGED nextSong

\* LockEnqueueSong() with EnqueueSongLocked() (lines 206-213), whose
\* caller enqueues only when no song is prepared.
LockEnqueueSong(c, song) ==
    /\ nextSong = NoSong
    /\ nextSong' = song
    /\ SynchronousCommand(c, "QUEUE", "end")
    /\ UNCHANGED errorType

\* The part of a method that runs once it holds the mutex, up to its first
\* wait or its end: Play() and LockSeek() (lines 63-75, 244-255),
\* LockCancel(), LockStop(), LockUpdateAudio() and Kill() (lines 77-108),
\* LockPause() and LockSetPause() (lines 119-145), and the three methods
\* above.
Begin(c, a) ==
    CASE a.name \in {"Play", "Seek"} -> SeekLocked(c, a.song)
      [] a.name = "Enqueue"    -> LockEnqueueSong(c, a.song)
      [] a.name = "ClearError" -> LockClearError(c)
      [] OTHER ->
           /\ CASE a.name = "Cancel"      -> SynchronousCommand(c, "CANCEL", "end")
                [] a.name = "Stop"        -> SynchronousCommand(c, "CLOSE_AUDIO", "end")
                [] a.name = "UpdateAudio" -> SynchronousCommand(c, "UPDATE_AUDIO", "end")
                [] a.name = "GetStatus"   -> LockGetStatus(c)
                [] a.name = "Kill"        -> SynchronousCommand(c, "EXIT", "kill")
                [] a.name = "Pause"       -> PauseLocked(c)
                [] a.name = "SetPause"    ->
                     IF SetPauseWanted(state, a.flag) THEN PauseLocked(c)
                     ELSE Finish(c)
           /\ UNCHANGED <<nextSong, errorType>>

\* A client calls a method: it takes the mutex and runs.  Kill() is the
\* last call, made at shutdown when no other client is inside a method.
Call(c) ==
    /\ cpc[c] = "idle" /\ lock = "free" /\ nops[c] < MaxOps
    /\ ppc # "exited" /\ command # "EXIT"
    /\ \E a \in Calls :
         /\ a.name = "Kill" => \A d \in Clients \ {c} : cpc[d] = "idle"
         /\ op' = [op EXCEPT ![c] = a]
         /\ Begin(c, a)
    /\ nops' = [nops EXCEPT ![c] = @ + 1]
    /\ thrown' = [thrown EXCEPT ![c] = FALSE]
    /\ UNCHANGED <<state, ppc, events, crossFade>>

\* WaitCommandLocked() (Control.hxx): the wait ends once the slot is NONE.
WaitDone == command = "NONE"

\* The client wakes with the mutex and the command done, and its method
\* goes on: after Kill's EXIT it unlocks and joins the thread; after the
\* CANCEL in SeekLocked() it issues the SEEK; after the SEEK it rethrows a
\* latched error (lines 236-239) and Play() unpauses a paused player.
Continue(c) ==
    /\ cpc[c] = "wait" /\ lock = "free" /\ WaitDone
    /\ CASE k[c] = "end" ->
              /\ Finish(c)
              /\ UNCHANGED <<nextSong, errorType, thrown>>
         [] k[c] = "kill" ->
              /\ lock' = "free"
              /\ cpc' = [cpc EXCEPT ![c] = "join"]
              /\ UNCHANGED <<command, signalled, k, nextSong, errorType, thrown>>
         [] k[c] = "seek" ->
              /\ SeekIssue(c, op[c].song)
              /\ UNCHANGED thrown
         [] k[c] = "seekdone" ->
              /\ UNCHANGED <<nextSong, errorType>>
              /\ IF errorType # "NONE"
                 THEN /\ thrown' = [thrown EXCEPT ![c] = TRUE]
                      /\ Finish(c)
                 ELSE /\ UNCHANGED thrown
                      /\ IF op[c].name = "Play" /\ state = "PAUSE"
                         THEN PauseLocked(c) ELSE Finish(c)
    /\ UNCHANGED <<state, ppc, events, op, nops, crossFade>>

Unlock(c) ==
    /\ cpc[c] = "unlock"
    /\ lock' = "free"
    /\ cpc' = [cpc EXCEPT ![c] = "idle"]
    /\ UNCHANGED <<command, state, nextSong, errorType, signalled, ppc, events,
                   op, k, thrown, nops, crossFade>>

\* Kill() joins the player thread.
Join(c) ==
    /\ cpc[c] = "join" /\ ppc = "exited"
    /\ cpc' = [cpc EXCEPT ![c] = "killed"]
    /\ UNCHANGED <<command, state, nextSong, errorType, lock, signalled, ppc,
                   events, op, k, thrown, nops, crossFade>>

\* A mutant: a negative duration is stored as it is.
SetCrossFadeNoClamp(x) == crossFade' = x

\* SetCrossFade() (lines 257-265), called without the mutex: a negative
\* duration is taken as 0.
SetCrossFade(x) == crossFade' = IF x < 0 THEN 0 ELSE x

CrossFadeCall(c) ==
    /\ cpc[c] = "idle" /\ nops[c] < MaxOps
    /\ \E x \in CrossFades : SetCrossFade(x)
    /\ nops' = [nops EXCEPT ![c] = @ + 1]
    /\ UNCHANGED <<command, state, nextSong, errorType, lock, signalled, ppc,
                   events, cpc, op, k, thrown>>

Client(c) ==
    Call(c) \/ Continue(c) \/ Unlock(c) \/ Join(c) \/ CrossFadeCall(c)

(***************************************************************************)
(* The player thread, from spec sections 4.8 and 4.10.  It acts under the  *)
(* mutex, so each step needs the mutex free.                               *)
(***************************************************************************)

\* Starting the song in next_song: the decoder either starts, and a
\* stopped player plays (a paused one stays paused), or fails, which
\* latches a decoder error and stops the player.
StartSong ==
    /\ nextSong' = NoSong
    /\ \/ /\ state' = IF state = "STOP" THEN "PLAY" ELSE state
          /\ UNCHANGED errorType
       \/ /\ errorType' = "DECODER"
          /\ state' = "STOP"

\* The player performs the command in the slot and sets it back to NONE,
\* signalling the clients (CommandFinished).
PlayerCommand ==
    /\ ppc = "run" /\ lock = "free" /\ command # "NONE"
    /\ command' = "NONE"
    /\ CASE command = "SEEK" -> StartSong /\ UNCHANGED ppc
         [] command = "QUEUE" ->
              /\ IF state = "STOP" THEN StartSong
                 ELSE UNCHANGED <<state, nextSong, errorType>>
              /\ UNCHANGED ppc
         [] command = "CANCEL" ->
              /\ nextSong' = NoSong
              /\ UNCHANGED <<state, errorType, ppc>>
         [] command = "PAUSE" ->
              /\ state' = CASE state = "PLAY"  -> "PAUSE"
                            [] state = "PAUSE" -> "PLAY"
                            [] OTHER           -> state
              /\ UNCHANGED <<nextSong, errorType, ppc>>
         [] command \in {"CLOSE_AUDIO", "EXIT"} ->
              /\ state' = "STOP"
              /\ nextSong' = NoSong
              /\ ppc' = IF command = "EXIT" THEN "exited" ELSE ppc
              /\ UNCHANGED errorType
         [] OTHER -> UNCHANGED <<state, nextSong, errorType, ppc>>
    /\ UNCHANGED <<lock, signalled, events, cpc, op, k, thrown, nops,
                   crossFade>>

\* While playing, the decoder reaches the end of the song or fails (which
\* latches an error); the player goes on with the queued song if there is
\* one and stops otherwise.
DecoderEvent ==
    /\ ppc = "run" /\ lock = "free" /\ state = "PLAY" /\ events < MaxEvents
    /\ events' = events + 1
    /\ \E fail \in BOOLEAN :
         /\ errorType' = IF fail THEN "DECODER" ELSE errorType
    /\ IF nextSong # NoSong
       THEN nextSong' = NoSong /\ UNCHANGED state
       ELSE state' = "STOP" /\ UNCHANGED nextSong
    /\ UNCHANGED <<command, lock, signalled, ppc, cpc, op, k, thrown, nops, crossFade>>

\* A stopped or paused player with no command waits on its condition.
PlayerSleep ==
    /\ ppc = "run" /\ lock = "free" /\ command = "NONE" /\ state # "PLAY"
    /\ ppc' = "asleep"
    /\ signalled' = FALSE
    /\ UNCHANGED <<command, state, nextSong, errorType, lock, events, cpc, op,
                   k, thrown, nops, crossFade>>

\* WaitOutputConsumed() (lines 51-61), called by the playing player: when
\* the outputs still hold too many chunks and no command is pending, the
\* player waits on its condition (Wait()) until a client command or an
\* output that consumed a chunk signals it.  Below the threshold it
\* returns at once and changes nothing.
WaitOutputConsumed ==
    /\ ppc = "run" /\ lock = "free" /\ state = "PLAY" /\ command = "NONE"
    /\ ppc' = "asleep"
    /\ signalled' = FALSE
    /\ UNCHANGED <<command, state, nextSong, errorType, lock, events, cpc, op,
                   k, thrown, nops, crossFade>>

\* An output thread has played a chunk and signals the player's condition
\* (spec section 5: the player blocks on "output pipe full").
OutputConsumed ==
    /\ ppc = "asleep" /\ ~signalled /\ state = "PLAY"
    /\ signalled' = TRUE
    /\ UNCHANGED <<command, state, nextSong, errorType, lock, ppc, events, cpc,
                   op, k, thrown, nops, crossFade>>

PlayerWake ==
    /\ ppc = "asleep" /\ signalled /\ lock = "free"
    /\ ppc' = "run"
    /\ UNCHANGED <<command, state, nextSong, errorType, lock, signalled, events,
                   cpc, op, k, thrown, nops, crossFade>>

Player ==
    \/ PlayerCommand \/ DecoderEvent \/ PlayerSleep \/ WaitOutputConsumed
    \/ OutputConsumed \/ PlayerWake

Next == Player \/ \E c \in Clients : Client(c)

\* The player thread and each client thread are scheduled: whatever step
\* they can take is taken.  Decoder events and new calls are not forced.
Spec ==
    /\ Init /\ [][Next]_vars
    /\ WF_vars(PlayerCommand) /\ WF_vars(PlayerWake)
    /\ \A c \in Clients :
         WF_vars(Continue(c)) /\ WF_vars(Unlock(c)) /\ WF_vars(Join(c))

(***************************************************************************)
(* Properties.                                                             *)
(***************************************************************************)

\* A prepared next song is only ever consumed or cancelled, never replaced
\* by another while it is pending: SeekLocked() cancels it before storing
\* its own song (lines 221-230), EnqueueSongLocked() requires none.
NextSongNeverReplaced ==
    [][nextSong # NoSong => nextSong' \in {nextSong, NoSong}]_nextSong

\* When LockSetPause() returns, the player is in the state the flag asked
\* for, or stopped; when Play() returns without an exception the player is
\* not paused (lines 71-74).  Both depend on the PAUSE being sent exactly when
\* the state read under the mutex needs it.
PauseRequestHonoured ==
    \A c \in Clients :
        (cpc[c] = "unlock" /\ ~thrown[c]) =>
            /\ op[c].name = "SetPause" =>
                 state \in {IF op[c].flag THEN "PAUSE" ELSE "PLAY", "STOP"}
            /\ op[c].name = "Play" => state # "PAUSE"

\* Every method a client calls returns: the player always performs the
\* command and the client is woken.
CommandsReturn ==
    \A c \in Clients :
        cpc[c] \notin {"idle", "killed"} ~> cpc[c] \in {"idle", "killed"}

================================================================================
