---------------------------- MODULE MC_AlsaSetup ----------------------------
(***************************************************************************)
(* AlsaSetup for TLC.  The device supports any subset of eight ALSA        *)
(* formats chosen so that every branch of the fallback chain decides       *)
(* something: plain (S24_LE, DSD_U8), packed (S24_3LE), swapped (S16_BE),  *)
(* swapped and packed (S24_3BE), swapped S32 (also the DoP shift8 case),   *)
(* and the DSD_U32 and DSD_U16 fallbacks in the other byte order.  The     *)
(* inputs are DSD, S16, S24_P32 and FLOAT, which no device here takes, so  *)
(* that the probe loop runs to its end.  A configured period time of 3 us  *)
(* halves to 0 within the retry budget; a driver buffer time of 10 ms gets *)
(* the default period of 2.5 ms and one of 8 ms gets none.                 *)
(***************************************************************************)
EXTENDS AlsaSetup

MCUniverse == {"S16_BE", "S24_LE", "S24_3LE", "S24_3BE", "S32_BE",
               "DSD_U8", "DSD_U32_BE", "DSD_U16_LE"}

MCInputs == {"DSD", "S16", "S24_P32", "FLOAT"}

=============================================================================
