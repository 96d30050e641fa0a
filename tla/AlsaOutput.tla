----------------------------- MODULE AlsaOutput -----------------------------
(***************************************************************************)
(* The runtime part of the ALSA output plugin                              *)
(* (src/output/plugins/AlsaOutputPlugin.cxx): Open, Play with its PlayRaw  *)
(* write loop and Recover, Drain, Cancel and Close, as they are called by  *)
(* the output thread, against libasound's PCM state machine.               *)
(*                                                                         *)
(* Frames are counted, never stored.  The device (libasound and the        *)
(* hardware behind it) is the environment: it consumes queued frames while *)
(* RUNNING, underruns when the buffer runs dry, and may be suspended or    *)
(* disconnected at any time.  The plugin is opened in blocking mode        *)
(* (mode = 0, line 82), so snd_pcm_writei never returns -EAGAIN; it blocks *)
(* while the buffer is full.                                               *)
(***************************************************************************)
EXTENDS Integers

CONSTANTS
    BufferFrames,   \* the ALSA buffer size, in frames
    PeriodSizes,    \* period sizes a driver may report (0 included: line 685)
    MaxChunk,       \* the largest chunk one Play call passes, in frames
    MaxFrames,      \* bound on the frames written between two prepares
    MaxFaults,      \* bound on suspends and disconnects of the device
    Dop             \* DSD over PCM: the export may swallow a single frame

ASSUME BufferFrames \in Nat \ {0} /\ PeriodSizes \subseteq 0..BufferFrames - 1
ASSUME MaxChunk \in Nat \ {0} /\ MaxFrames \in Nat /\ MaxFaults \in Nat
ASSUME Dop \in BOOLEAN

PcmStates == {"CLOSED", "SETUP", "PREPARED", "RUNNING", "XRUN",
              "SUSPENDED", "DISCONNECTED"}

VARIABLES
    pcm,            \* snd_pcm_state(pcm)
    queued,         \* frames in the device buffer, not yet played
    sincePrep,      \* frames written since the PCM was last prepared
    faults,         \* suspends and disconnects so far
    opened,         \* between a successful Open and Close
    pc,             \* "idle", "write" (inside PlayRaw's loop), "failed"
    pending,        \* frames PlayRaw tries to write
    mustPrepare,    \* must_prepare
    periodPosition, \* period_position
    periodFrames,   \* period_frames
    startThreshold, \* the start threshold AlsaSetupSw installed
    drainLeft       \* frames still queued when the last Drain returned

vars == <<pcm, queued, sincePrep, faults, opened, pc, pending,
          mustPrepare, periodPosition, periodFrames, startThreshold,
          drainLeft>>

TypeOK ==
    /\ pcm \in PcmStates
    /\ queued \in 0..BufferFrames
    /\ sincePrep \in 0..MaxFrames
    /\ faults \in 0..MaxFaults
    /\ opened \in BOOLEAN
    /\ pc \in {"idle", "write", "failed"}
    /\ pending \in 0..MaxChunk
    /\ mustPrepare \in BOOLEAN
    /\ periodFrames \in 1..BufferFrames
    /\ periodPosition \in 0..periodFrames - 1
    /\ startThreshold \in 1..BufferFrames
    /\ drainLeft \in -1..BufferFrames

Init ==
    /\ pcm = "CLOSED"
    /\ queued = 0
    /\ sincePrep = 0
    /\ faults = 0
    /\ opened = FALSE
    /\ pc = "idle"
    /\ pending = 0
    /\ mustPrepare = FALSE
    /\ periodPosition = 0
    /\ periodFrames = 1
    /\ startThreshold = BufferFrames
    /\ drainLeft = -1

(***************************************************************************)
(* libasound operations the plugin calls.                                  *)
(***************************************************************************)

\* snd_pcm_prepare(): succeeds from every state but DISCONNECTED and empties
\* the buffer.
PrepareOk == pcm # "DISCONNECTED"

Prepared ==
    /\ pcm' = IF PrepareOk THEN "PREPARED" ELSE pcm
    /\ queued' = IF PrepareOk THEN 0 ELSE queued
    /\ sincePrep' = IF PrepareOk THEN 0 ELSE sincePrep

\* The number of frames a blocking snd_pcm_writei may accept now.
Space == BufferFrames - queued

(***************************************************************************)
(* AlsaOutput::Recover(err) (lines 811-858).  resumeAgain says whether     *)
(* snd_pcm_resume() answers -EAGAIN; any other answer, success included,   *)
(* falls through to snd_pcm_prepare().  The PAUSED case is unreachable:    *)
(* the plugin has no pause method and never pauses the PCM.                *)
(***************************************************************************)
RecoverPrepares(resumeAgain) ==
    \/ pcm \in {"SETUP", "XRUN"}
    \/ pcm = "SUSPENDED" /\ ~resumeAgain

\* A mutant: a disconnected device treated like a running one.
RecoverOkIgnoringDisconnect(resumeAgain) ==
    IF RecoverPrepares(resumeAgain) THEN PrepareOk ELSE TRUE

\* Recover(err) >= 0
RecoverOk(resumeAgain) ==
    IF RecoverPrepares(resumeAgain) THEN PrepareOk
    ELSE pcm # "DISCONNECTED"

Recover(resumeAgain) ==
    IF RecoverPrepares(resumeAgain)
    THEN /\ periodPosition' = 0
         /\ Prepared
    ELSE UNCHANGED <<periodPosition, pcm, queued, sincePrep>>

(***************************************************************************)
(* Calls of the output thread.                                             *)
(***************************************************************************)

\* A mutant: the period_size == 0 workaround dropped.
PeriodFramesRaw(p) == p

\* period_frames for a driver period size p: 0 becomes 1, and the period
\* position starts at 0 (lines 682-700).
PeriodFramesOf(p) == IF p = 0 THEN 1 ELSE p

\* The start threshold Setup() reads the buffer and period sizes for and
\* AlsaSetupSw() installs: buffer_size - period_size, taken before the
\* workaround above (lines 617-680).  A failing sw_params call throws out
\* of Open(), which then changes nothing.
StartThresholdOf(p) == BufferFrames - p

\* AlsaOutput::Open with Setup (lines 650-700, 771-808), for a driver that
\* reports period size p.  snd_pcm_hw_params() leaves the PCM PREPARED;
\* the start threshold is buffer_size - period_size (line 679).  A failing
\* snd_pcm_open or Setup closes the PCM and throws, which changes nothing.
Open(p) ==
    /\ ~opened
    /\ pcm' = "PREPARED"
    /\ queued' = 0
    /\ sincePrep' = 0
    /\ periodFrames' = PeriodFramesOf(p)
    /\ periodPosition' = 0
    /\ startThreshold' = StartThresholdOf(p)
    /\ mustPrepare' = FALSE
    /\ opened' = TRUE
    /\ UNCHANGED <<faults, pc, pending, drainLeft>>

\* AlsaOutput::Play (lines 927-954) up to the call of PlayRaw: the prepare
\* after a Cancel, then the export, which under DoP swallows a lone frame.
Play(n) ==
    /\ opened /\ pc = "idle"
    /\ sincePrep + n <= MaxFrames
    /\ mustPrepare' = FALSE
    /\ IF mustPrepare THEN Prepared ELSE UNCHANGED <<pcm, queued, sincePrep>>
    /\ pc' = CASE mustPrepare /\ ~PrepareOk -> "failed"
               [] Dop /\ n = 1             -> "idle"
               [] OTHER                    -> "write"
    /\ pending' = IF pc' = "write" THEN n ELSE 0
    /\ UNCHANGED <<faults, opened, periodPosition, periodFrames,
                   startThreshold, drainLeft>>

\* One iteration of PlayRaw's loop (lines 908-923): snd_pcm_writei writes
\* k > 0 frames and PlayRaw returns, or it fails and Recover decides
\* between another iteration and a throw.
PlayRawWrite ==
    /\ pc = "write"
    /\ \/ /\ pcm \in {"PREPARED", "RUNNING"}
          /\ Space > 0
          /\ \E k \in 1..pending :
                /\ k <= Space
                /\ queued' = queued + k
                /\ sincePrep' = sincePrep + k
                /\ pcm' = IF pcm = "PREPARED" /\ queued + k >= startThreshold
                          THEN "RUNNING" ELSE pcm
                /\ periodPosition' = (periodPosition + k) % periodFrames
          /\ pc' = "idle"
          /\ pending' = 0
       \/ /\ pcm \in {"SETUP", "XRUN", "SUSPENDED", "DISCONNECTED"}
          /\ \E resumeAgain \in BOOLEAN :
                /\ resumeAgain => pcm = "SUSPENDED"
                /\ Recover(resumeAgain)
                /\ pc' = IF RecoverOk(resumeAgain) THEN "write" ELSE "failed"
                /\ pending' = IF RecoverOk(resumeAgain) THEN pending ELSE 0
    /\ UNCHANGED <<faults, opened, mustPrepare, periodFrames, startThreshold,
                   drainLeft>>

\* AlsaOutput::Drain (lines 860-877): only a RUNNING PCM is drained; the
\* partial period is completed with silence and snd_pcm_drain() waits
\* until every queued frame has been played, leaving the PCM in SETUP.
Drain ==
    /\ opened /\ pc = "idle"
    /\ IF pcm # "RUNNING"
       THEN /\ drainLeft' = queued
            /\ UNCHANGED <<pcm, queued, sincePrep, periodPosition>>
       ELSE /\ pcm' = "SETUP"
            /\ queued' = 0
            /\ sincePrep' = 0
            /\ periodPosition' = 0
            /\ drainLeft' = 0
    /\ UNCHANGED <<faults, opened, pc, pending, mustPrepare, periodFrames,
                   startThreshold>>

\* A mutant: Cancel forgets to reset period_position.
CancelNoReset ==
    /\ opened /\ pc = "idle"
    /\ mustPrepare' = TRUE
    /\ IF pcm # "DISCONNECTED"
       THEN /\ pcm' = "SETUP" /\ queued' = 0 /\ sincePrep' = 0
       ELSE UNCHANGED <<pcm, queued, sincePrep>>
    /\ UNCHANGED <<faults, opened, pc, pending, periodPosition, periodFrames,
                   startThreshold, drainLeft>>

\* AlsaOutput::Cancel (lines 879-888): snd_pcm_drop() discards the buffer
\* and leaves the PCM in SETUP; the next Play must prepare it.
Cancel ==
    /\ opened /\ pc = "idle"
    /\ periodPosition' = 0
    /\ mustPrepare' = TRUE
    /\ IF pcm # "DISCONNECTED"
       THEN /\ pcm' = "SETUP" /\ queued' = 0 /\ sincePrep' = 0
       ELSE UNCHANGED <<pcm, queued, sincePrep>>
    /\ UNCHANGED <<faults, opened, pc, pending, periodFrames, startThreshold,
                   drainLeft>>

\* AlsaOutput::Close (lines 890-895), also after Play has thrown.
Close ==
    /\ opened /\ pc \in {"idle", "failed"}
    /\ opened' = FALSE
    /\ pcm' = "CLOSED"
    /\ queued' = 0
    /\ sincePrep' = 0
    /\ pc' = "idle"
    /\ UNCHANGED <<faults, pending, mustPrepare, periodPosition, periodFrames,
                   startThreshold, drainLeft>>

(***************************************************************************)
(* The device.                                                             *)
(***************************************************************************)

Consume ==
    /\ pcm = "RUNNING" /\ queued > 0
    /\ queued' = queued - 1
    /\ UNCHANGED <<pcm, sincePrep, faults>>

Underrun ==
    /\ pcm = "RUNNING" /\ queued = 0
    /\ pcm' = "XRUN"
    /\ UNCHANGED <<queued, sincePrep, faults>>

Suspend ==
    /\ faults < MaxFaults
    /\ pcm \in {"PREPARED", "RUNNING"}
    /\ pcm' = "SUSPENDED"
    /\ faults' = faults + 1
    /\ UNCHANGED <<queued, sincePrep>>

Disconnect ==
    /\ faults < MaxFaults
    /\ pcm \notin {"CLOSED", "DISCONNECTED"}
    /\ pcm' = "DISCONNECTED"
    /\ faults' = faults + 1
    /\ UNCHANGED <<queued, sincePrep>>

Device ==
    /\ Consume \/ Underrun \/ Suspend \/ Disconnect
    /\ UNCHANGED <<opened, pc, pending, mustPrepare, periodPosition,
                   periodFrames, startThreshold, drainLeft>>

Caller ==
    \/ \E p \in PeriodSizes : Open(p)
    \/ \E n \in 1..MaxChunk : Play(n)
    \/ Drain
    \/ Cancel
    \/ Close

Next == Caller \/ PlayRawWrite \/ Device

\* The output thread keeps running PlayRaw's loop; the hardware keeps
\* playing queued frames and underruns when none are left.  Neither the
\* calls of the output thread nor suspends and disconnects are fair.
Fairness ==
    /\ WF_vars(PlayRawWrite)
    /\ WF_vars(Consume /\ UNCHANGED <<opened, pc, pending, mustPrepare,
               periodPosition, periodFrames, startThreshold, drainLeft>>)

Spec == Init /\ [][Next]_vars /\ Fairness

(***************************************************************************)
(* Properties.                                                             *)
(***************************************************************************)

\* period_position counts the frames written into the current period since
\* the PCM was last prepared, started or dropped: Drain pads the partial
\* period from it with silence (lines 866-872) and sizes that write by the
\* one-period silence buffer.  Every path that empties the buffer (Recover's
\* prepare, Cancel's drop, Drain, a prepare after Cancel) must keep it in
\* step with what the device really holds.
PeriodPositionTracksDevice ==
    (opened /\ pcm # "DISCONNECTED") =>
        periodPosition = sincePrep % periodFrames

\* Once PlayRaw starts writing it returns or throws: Recover never sends it
\* round its loop forever, unless the device stays suspended and resume
\* keeps answering -EAGAIN (lines 827-830).
PlayReturns == pc = "write" ~> (pc # "write" \/ pcm = "SUSPENDED")

\* OutputPlugin.hxx:123 says drain waits "until the device has finished
\* playing": when Drain returns, no written frame is left unplayed.
DrainPlaysAll == drainLeft \in {-1, 0}

=============================================================================
