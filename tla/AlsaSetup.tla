------------------------------ MODULE AlsaSetup ------------------------------
(***************************************************************************)
(* AlsaSetupHw (src/output/plugins/AlsaOutputPlugin.cxx lines 499-615)     *)
(* with the sample format negotiation it calls (lines 245-488): the input  *)
(* format is tried first, each ALSA format in its plain, packed, byte-     *)
(* swapped and swapped-packed form (and for DSD the U32 and U16 forms),    *)
(* then the probe formats in order; the hw_params step is retried with a   *)
(* halved period time while the driver answers -EPIPE.                     *)
(*                                                                         *)
(* The hardware is a set `supported` of ALSA formats that                  *)
(* snd_pcm_hw_params_set_format accepts (anything else is -EINVAL), chosen *)
(* in Init, and a driver that picks buffer times and may answer -EPIPE.    *)
(* The host is little-endian: SND_PCM_FORMAT_S16 is S16_LE and so on.      *)
(*                                                                         *)
(* Around it, AlsaOutput::SetupOrDop (lines 737-769): with "dop" enabled a *)
(* DSD stream is first set up as S24_P32 by SetupDop (lines 703-735), which *)
(* accepts the result only if it is S24_P32 (or S32, with shift8) at the   *)
(* unchanged rate and channel count; otherwise it throws, and SetupOrDop   *)
(* falls back to a plain Setup of the DSD format with the same params.     *)
(* Whether snd_pcm_hw_params_set_channels_near and _set_rate_near keep the *)
(* requested values (lines 527-553) is the driver's choice.                *)
(***************************************************************************)
EXTENDS Integers, Sequences, FiniteSetsExt

CONSTANTS
    Universe,          \* the ALSA formats a device may support
    Inputs,            \* input sample formats audio_format.format may have
    BufferTimeCfgs,    \* configured buffer_time values (0: not configured)
    PeriodTimeCfgs,    \* configured period_time values (0: not configured)
    DriverBufferTimes  \* buffer times a driver may settle on

\* MPD_ALSA_RETRY_NR (line 51)
RetryNr == 5

SampleFormats == {"DSD", "S8", "S16", "S24_P32", "S32", "FLOAT"}

\* probe_formats (lines 467-473), without the UNDEFINED terminator.
ProbeFormats == <<"S24_P32", "S32", "S16", "S8">>

\* ToAlsaPcmFormat (lines 250-283) on a little-endian host.
ToAlsa(sf) ==
    CASE sf = "DSD"     -> "DSD_U8"
      [] sf = "S8"      -> "S8"
      [] sf = "S16"     -> "S16_LE"
      [] sf = "S24_P32" -> "S24_LE"
      [] sf = "S32"     -> "S32_LE"
      [] sf = "FLOAT"   -> "FLOAT_LE"

\* ByteSwapAlsaPcmFormat (lines 289-323): an involution on the formats it
\* knows, UNKNOWN elsewhere.
SwapPairs == {<<"S16_LE", "S16_BE">>, <<"S24_LE", "S24_BE">>,
              <<"S32_LE", "S32_BE">>, <<"S24_3LE", "S24_3BE">>,
              <<"DSD_U16_LE", "DSD_U16_BE">>, <<"DSD_U32_LE", "DSD_U32_BE">>}

ByteSwap(f) ==
    IF \E pr \in SwapPairs : f \in {pr[1], pr[2]}
    THEN LET pr == CHOOSE q \in SwapPairs : f \in {q[1], q[2]}
         IN  IF f = pr[1] THEN pr[2] ELSE pr[1]
    ELSE "UNKNOWN"

\* PackAlsaPcmFormat (lines 329-342).
Pack(f) ==
    CASE f = "S24_LE" -> "S24_3LE"
      [] f = "S24_BE" -> "S24_3BE"
      [] OTHER        -> "UNKNOWN"

ParamFlags == {"pack24", "reverse_endian", "dsd_u16", "dsd_u32", "shift8",
               "dop"}

\* The PcmExport::Params that AlsaOutput::Open (line 784) passes in.
NoParams == [f \in ParamFlags |-> FALSE]

VARIABLES
    supported,      \* the formats the hardware accepts
    input,          \* audio_format.format when AlsaSetupHw was called
    format,         \* audio_format.format
    params,         \* the PcmExport::Params flags the negotiation sets
    alsa,           \* the ALSA format the hw params hold
    err,            \* the last result of the format negotiation
    probe,          \* the index i of AlsaSetupFormat's probe loop
    pc,             \* "any" (label configure_hw), "probe", "times", "hw",
                    \* "done", "failed"
    retry,          \* retry
    bufferTime,     \* the buffer_time argument, updated by the driver
    periodTimeRo,   \* period_time_ro
    attempts,       \* calls of snd_pcm_hw_params so far in this Setup
    stage,          \* "dop": inside SetupDop; "plain": the plain Setup;
                    \* "dop_done": SetupDop returned
    config,         \* the buffer_time and period_time members
    exact,          \* the driver kept the channels and the sample rate
    dopError        \* dop_error holds the exception SetupDop threw

vars == <<supported, input, format, params, alsa, err, probe, pc, retry,
          bufferTime, periodTimeRo, attempts, stage, config, exact, dopError>>

\* The variables of one call of AlsaSetupHw.
hwVars == <<supported, input, format, params, alsa, err, probe, pc, retry,
            bufferTime, periodTimeRo, attempts>>

TypeOK ==
    /\ supported \subseteq Universe
    /\ input \in Inputs
    /\ format \in SampleFormats
    /\ params \in [ParamFlags -> BOOLEAN]
    /\ alsa \in Universe \cup {"UNKNOWN"}
    /\ err \in {"OK", "EINVAL"}
    /\ probe \in 0..Len(ProbeFormats) + 1
    /\ pc \in {"any", "probe", "times", "hw", "done", "failed"}
    /\ retry \in 0..RetryNr
    /\ bufferTime \in Nat
    /\ periodTimeRo \in Nat
    /\ attempts \in 0..RetryNr
    /\ stage \in {"dop", "plain", "dop_done"}
    /\ config \in [buffer_time : BufferTimeCfgs, period_time : PeriodTimeCfgs]
    /\ exact \in BOOLEAN
    /\ dopError \in BOOLEAN

\* The start of AlsaSetupHw (lines 504-506) for the sample format sf.
StartSetup(sf) ==
    /\ format' = sf
    /\ probe' = 0
    /\ pc' = "any"
    /\ retry' = RetryNr
    /\ bufferTime' = config.buffer_time
    /\ periodTimeRo' = config.period_time
    /\ attempts' = 0

\* SetupOrDop entered with audio_format.format = input: SetupDop is tried
\* when dop is enabled and the input is DSD (lines 741-744), with
\* params.dop set and the format passed to Setup changed to S24_P32.
Init ==
    /\ supported \in SUBSET Universe
    /\ input \in Inputs
    /\ stage \in IF input = "DSD" THEN {"dop", "plain"} ELSE {"plain"}
    /\ config \in [buffer_time : BufferTimeCfgs, period_time : PeriodTimeCfgs]
    /\ format = IF stage = "dop" THEN "S24_P32" ELSE input
    /\ params = [NoParams EXCEPT !.dop = (stage = "dop")]
    /\ alsa = "UNKNOWN"
    /\ err = "EINVAL"
    /\ probe = 0
    /\ pc = "any"
    /\ retry = RetryNr
    /\ bufferTime = config.buffer_time
    /\ periodTimeRo = config.period_time
    /\ attempts = 0
    /\ exact = TRUE
    /\ dopError = FALSE

(***************************************************************************)
(* The negotiation operators.  A result is the error, the ALSA format the  *)
(* hw params now hold, and the params flags; a failed attempt leaves the   *)
(* flags as they were.                                                     *)
(***************************************************************************)
Fail(p) == [err |-> "EINVAL", alsa |-> "UNKNOWN", params |-> p]

Accepted(f, p) == [err |-> "OK", alsa |-> f, params |-> p]

\* AlsaTryFormatOrPacked (lines 348-368)
TryFormatOrPacked(f, p) ==
    CASE f \in supported ->
            Accepted(f, [p EXCEPT !.pack24 = FALSE])
      [] Pack(f) # "UNKNOWN" /\ Pack(f) \in supported ->
            Accepted(Pack(f), [p EXCEPT !.pack24 = TRUE])
      [] OTHER -> Fail(p)

TryFormatOrByteSwap(f, p) ==
    LET r1 == TryFormatOrPacked(f, p)
        r2 == TryFormatOrPacked(ByteSwap(f), p)
    IN  CASE r1.err = "OK" ->
                [r1 EXCEPT !.params.reverse_endian = FALSE]
          [] ByteSwap(f) = "UNKNOWN" -> Fail(p)
          [] r2.err = "OK" ->
                [r2 EXCEPT !.params.reverse_endian = TRUE]
          [] OTHER -> r2

\* A mutant: fmt is not set back to DSD_U8 after a failed DSD_U32 attempt.
TryDsdU32NoRestore(f, p, r) ==
    LET r2 == TryFormatOrByteSwap("DSD_U32_LE", p)
    IN  CASE r.err = "OK" \/ f # "DSD_U8" -> [res |-> r, fmt |-> f]
          [] r2.err = "OK" ->
                [res |-> [r2 EXCEPT !.params.dsd_u32 = TRUE],
                 fmt |-> "DSD_U32_LE"]
          [] OTHER -> [res |-> r2, fmt |-> "DSD_U32_LE"]

\* The DSD_U32 attempt of AlsaTryFormatDsd (lines 413-423), after result r
\* for f: the new result and the value of fmt afterwards.
TryDsdU32(f, p, r) ==
    LET r2 == TryFormatOrByteSwap("DSD_U32_LE", p)
    IN  CASE r.err = "OK" \/ f # "DSD_U8" -> [res |-> r, fmt |-> f]
          [] r2.err = "OK" ->
                [res |-> [r2 EXCEPT !.params.dsd_u32 = TRUE],
                 fmt |-> "DSD_U32_LE"]
          [] OTHER -> [res |-> r2, fmt |-> "DSD_U8"]

\* The DSD_U16 attempt (lines 425-435).
TryDsdU16(f, p, r) ==
    LET r2 == TryFormatOrByteSwap("DSD_U16_LE", p)
    IN  CASE r.err = "OK" \/ f # "DSD_U8" -> r
          [] r2.err = "OK" -> [r2 EXCEPT !.params.dsd_u16 = TRUE]
          [] OTHER -> r2

\* AlsaTryFormatDsd (lines 401-439)
TryFormatDsd(f, p) ==
    LET r1 == TryFormatOrByteSwap(f, p)
        r0 == IF r1.err = "OK"
              THEN [r1 EXCEPT !.params.dsd_u16 = FALSE,
                              !.params.dsd_u32 = FALSE]
              ELSE r1
        u32 == TryDsdU32(f, p, r0)
    IN  TryDsdU16(u32.fmt, p, u32.res)

\* AlsaTryFormat (lines 441-451); no input format maps to UNKNOWN here.
TryFormat(sf, p) == TryFormatDsd(ToAlsa(sf), p)

Apply(r) ==
    /\ err' = r.err
    /\ alsa' = r.alsa
    /\ params' = r.params

(***************************************************************************)
(* The steps of AlsaSetupHw.                                               *)
(***************************************************************************)

\* Label configure_hw (lines 508-521): hw params reset, access set, then the
\* input format tried by AlsaSetupFormat (line 463).
ConfigureHw ==
    /\ pc = "any"
    /\ Apply(TryFormat(format, params))
    /\ probe' = 1
    /\ pc' = "probe"
    /\ UNCHANGED <<supported, input, format, retry, bufferTime, periodTimeRo,
                   attempts>>
    /\ UNCHANGED <<stage, config, exact, dopError>>

\* One iteration of the probe loop (lines 475-485), skipping the input
\* format; a format that is accepted becomes audio_format.format.
ProbeStep ==
    /\ pc = "probe"
    /\ err = "EINVAL" /\ probe <= Len(ProbeFormats)
    /\ probe' = probe + 1
    /\ LET pf == ProbeFormats[probe]
           r  == TryFormat(pf, params)
       IN  IF pf = format
           THEN UNCHANGED <<err, alsa, params, format>>
           ELSE /\ Apply(r)
                /\ format' = IF r.err = "OK" THEN pf ELSE format
    /\ UNCHANGED <<supported, input, pc, retry, bufferTime, periodTimeRo,
                   attempts>>
    /\ UNCHANGED <<stage, config, exact, dopError>>

\* The end of the loop: AlsaSetupHw throws on a negative result (line 522);
\* otherwise the driver sets the nearest channel count and sample rate
\* (lines 527-553), and may or may not keep the requested ones; only
\* SetupDop looks at the outcome, so the plain Setup keeps `exact` as is.
ProbeEnd ==
    /\ pc = "probe"
    /\ err = "OK" \/ probe > Len(ProbeFormats)
    /\ pc' = IF err = "OK" THEN "times" ELSE "failed"
    /\ exact' \in IF err = "OK" /\ stage = "dop" THEN BOOLEAN ELSE {exact}
    /\ UNCHANGED <<supported, input, format, params, alsa, err, probe, retry,
                   bufferTime, periodTimeRo, attempts>>
    /\ UNCHANGED <<stage, config, dopError>>

\* Buffer and period time (lines 575-603): a configured buffer time is set
\* to the driver's nearest value, else the driver's value is read (0 when
\* that fails); without a period time one quarter of a buffer time of at
\* least 10 ms is used.
Times ==
    /\ pc = "times"
    /\ \E bt \in IF bufferTime > 0 THEN DriverBufferTimes
                 ELSE DriverBufferTimes \cup {0} :
          /\ bufferTime' = bt
          /\ periodTimeRo' = IF periodTimeRo = 0 /\ bt >= 10000
                             THEN bt \div 4 ELSE periodTimeRo
    /\ pc' = "hw"
    /\ UNCHANGED <<supported, input, format, params, alsa, err, probe, retry,
                   attempts>>
    /\ UNCHANGED <<stage, config, exact, dopError>>

\* A mutant: the retry budget is tested before it is decremented.
HwParamsLateCheck ==
    /\ pc = "hw"
    /\ attempts' = attempts + 1
    /\ \/ /\ pc' = "done"
          /\ UNCHANGED <<retry, periodTimeRo>>
       \/ /\ retry' = IF retry > 0 THEN retry - 1 ELSE 0
          /\ IF retry > 0 /\ periodTimeRo > 0
             THEN /\ periodTimeRo' = periodTimeRo \div 2
                  /\ pc' = "any"
             ELSE /\ pc' = "failed"
                  /\ UNCHANGED periodTimeRo
    /\ UNCHANGED <<supported, input, format, params, alsa, err, probe,
                   bufferTime>>
    /\ UNCHANGED <<stage, config, exact, dopError>>

\* A mutant: retry is never decremented.
HwParamsNoCountdown ==
    /\ pc = "hw"
    /\ attempts' = IF attempts < RetryNr THEN attempts + 1 ELSE attempts
    /\ \/ /\ pc' = "done"
          /\ UNCHANGED <<retry, periodTimeRo>>
       \/ /\ UNCHANGED retry
          /\ IF retry - 1 > 0 /\ periodTimeRo > 0
             THEN /\ periodTimeRo' = periodTimeRo \div 2
                  /\ pc' = "any"
             ELSE /\ pc' = "failed"
                  /\ UNCHANGED periodTimeRo
    /\ UNCHANGED <<supported, input, format, params, alsa, err, probe,
                   bufferTime>>
    /\ UNCHANGED <<stage, config, exact, dopError>>

\* snd_pcm_hw_params (lines 605-611): success, or -EPIPE retried from
\* configure_hw with half the period time while the budget lasts.
HwParams ==
    /\ pc = "hw"
    /\ attempts' = attempts + 1
    /\ \/ /\ pc' = "done"
          /\ UNCHANGED <<retry, periodTimeRo>>
       \/ /\ retry' = retry - 1
          /\ IF retry - 1 > 0 /\ periodTimeRo > 0
             THEN /\ periodTimeRo' = periodTimeRo \div 2
                  /\ pc' = "any"
             ELSE /\ pc' = "failed"
                  /\ UNCHANGED periodTimeRo
    /\ UNCHANGED <<supported, input, format, params, alsa, err, probe,
                   bufferTime>>
    /\ UNCHANGED <<stage, config, exact, dopError>>

(***************************************************************************)
(* The end of SetupDop (lines 718-735): params.shift8 is set when Setup    *)
(* settled on S32 (line 725), before the result is compared with the       *)
(* requested S24_P32 format, rate and channel count (lines 726-734).       *)
(***************************************************************************)

\* params.shift8 after line 725; when Setup threw, line 725 is not reached.
Shift8 == IF pc = "done" THEN format = "S32" ELSE params.shift8

DopAccepted == pc = "done" /\ format \in {"S24_P32", "S32"} /\ exact

\* SetupDop returns, and so does SetupOrDop (line 745).
SetupDopReturns ==
    /\ stage = "dop" /\ DopAccepted
    /\ stage' = "dop_done"
    /\ params' = [params EXCEPT !.shift8 = Shift8]
    /\ UNCHANGED <<supported, input, format, alsa, err, probe, pc, retry,
                   bufferTime, periodTimeRo, attempts, config, exact, dopError>>

\* A mutant: the catch block does not clear params.dop.
DopFallbackKeepsDop ==
    /\ stage = "dop" /\ pc \in {"done", "failed"} /\ ~DopAccepted
    /\ stage' = "plain"
    /\ dopError' = TRUE
    /\ params' = [params EXCEPT !.shift8 = Shift8]
    /\ StartSetup(input)
    /\ UNCHANGED <<supported, input, alsa, err, config, exact>>

\* Setup or SetupDop threw: SetupOrDop keeps the exception in dop_error,
\* clears params.dop (lines 746-749) and runs Setup on the DSD format
\* (line 757) with the params SetupDop left, shift8 included.
DopFallback ==
    /\ stage = "dop" /\ pc \in {"done", "failed"} /\ ~DopAccepted
    /\ stage' = "plain"
    /\ dopError' = TRUE
    /\ params' = [params EXCEPT !.shift8 = Shift8, !.dop = FALSE]
    /\ StartSetup(input)
    /\ UNCHANGED <<supported, input, alsa, err, config, exact>>

Next == ConfigureHw \/ ProbeStep \/ ProbeEnd \/ Times \/ HwParams
        \/ SetupDopReturns \/ DopFallback

\* AlsaSetupHw runs on one thread without waiting for anyone.
Spec == Init /\ [][Next]_vars /\ WF_vars(Next)

(***************************************************************************)
(* The reference: which formats can carry a sample format, and which one   *)
(* the negotiation must settle on.                                         *)
(***************************************************************************)

\* Every ALSA format the export can produce from sample format sf.
Variants(sf) ==
    LET a == ToAlsa(sf)
        dsd == IF sf = "DSD"
               THEN {"DSD_U32_LE", "DSD_U32_BE", "DSD_U16_LE", "DSD_U16_BE"}
               ELSE {}
    IN  ({a, Pack(a), ByteSwap(a), Pack(ByteSwap(a))} \cup dsd) \ {"UNKNOWN"}

Acceptable(sf) == Variants(sf) \cap supported # {}

\* The format the current Setup was asked for.
Requested == IF stage \in {"dop", "dop_done"} THEN "S24_P32" ELSE input

\* The requested format if the hardware takes it in some form, else the first
\* probe format that it takes, else "NONE".
Expected ==
    LET ok == {i \in 1..Len(ProbeFormats) :
                  ProbeFormats[i] # Requested /\ Acceptable(ProbeFormats[i])}
    IN  CASE Acceptable(Requested) -> Requested
          [] ok # {}           -> ProbeFormats[Min(ok)]
          [] OTHER             -> "NONE"

\* The ALSA format PcmExport produces from sample format sf under params p
\* (PcmExport is not part of this tree; after spec section 8: DoP turns DSD
\* into S24_P32, dsd_u16/dsd_u32 apply to DSD, shift8 and pack24 to S24_P32,
\* reverse_endian swaps the bytes of every sample).
Exported(sf, p) ==
    LET s == IF p.dop /\ sf = "DSD" THEN "S24_P32" ELSE sf
        base == CASE s = "DSD" /\ p.dsd_u32    -> "DSD_U32_LE"
                  [] s = "DSD" /\ p.dsd_u16    -> "DSD_U16_LE"
                  [] s = "S24_P32" /\ p.shift8 -> "S32_LE"
                  [] OTHER                     -> ToAlsa(s)
        sw == IF p.reverse_endian THEN ByteSwap(base) ELSE base
    IN  IF p.pack24 /\ s = "S24_P32" THEN Pack(sw) ELSE sw

\* The sample format Open goes on with: SetupDop works on a copy and leaves
\* audio_format DSD.
Delivered == IF stage = "dop_done" THEN input ELSE format

\* Setup and SetupOrDop have returned or thrown.
Finished == pc \in {"done", "failed"} /\ stage # "dop"

Negotiated == pc \in {"times", "hw", "done"}

(***************************************************************************)
(* Properties.                                                             *)
(***************************************************************************)

\* The fallback chain of AlsaSetupFormat is complete and keeps MPD's
\* preference: it fails only if no form of the requested format or of any
\* probe format is supported, and otherwise settles on the requested format
\* when the device takes it in any form, else on the first probe format it
\* takes.
FormatSearchComplete ==
    /\ (pc = "failed" /\ attempts = 0) => Expected = "NONE"
    /\ Negotiated => format = Expected

DopBitPerfect ==
    (Finished /\ pc = "done" /\ params.dop) =>
        /\ exact
        /\ alsa \in Variants("S24_P32") \cup Variants("S32")

\* SetupOrDop returns or throws: the -EPIPE retry loop of each Setup ends
\* even though a period time halved to 0 is set back to a quarter of the
\* buffer time (line 588) on the next pass, and a failed DoP attempt is
\* followed by one plain Setup.
SetupTerminates == <>Finished

=============================================================================
