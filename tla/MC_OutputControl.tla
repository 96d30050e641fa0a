------------------------- MODULE MC_OutputControl -------------------------
(* One output with the ALSA plugin's function table (enable and disable    *)
(* present), configured with or without always_on.  The caller's shared *)
(* notify still carries stale signals: every asynchronous command signals  *)
(* it on completion without anybody waiting.                               *)
EXTENDS OutputControl

MCOutputs == {"o1"}

=============================================================================
