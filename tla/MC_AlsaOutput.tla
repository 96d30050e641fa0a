--------------------------- MODULE MC_AlsaOutput ---------------------------
(***************************************************************************)
(* AlsaOutput for TLC: a four-frame buffer, drivers that report a period   *)
(* of 0 (the workaround at line 685), 2 or 3 frames, chunks of up to three *)
(* frames, and one suspend or disconnect of the device.  A period of 2 or  *)
(* 3 with chunks of 1..3 frames makes period_position wrap inside and      *)
(* across chunks; the start threshold (buffer minus period) is then 2 or   *)
(* 1, so the PCM is seen both PREPARED with frames queued and RUNNING.     *)
(***************************************************************************)
EXTENDS AlsaOutput

MCPeriodSizes == {0, 2, 3}

=============================================================================
