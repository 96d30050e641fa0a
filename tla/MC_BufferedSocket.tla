------------------------- MODULE MC_BufferedSocket -------------------------
(***************************************************************************)
(* BufferedSocket for TLC, with the constants of MC_BufferedSocket.cfg: a  *)
(* three-byte buffer and a peer that sends up to seven bytes, so the       *)
(* buffer fills, a read stops at the buffer's end with bytes left in the   *)
(* kernel, and the handler sees empty, full and two partly filled buffers. *)
(***************************************************************************)
EXTENDS BufferedSocket

=============================================================================
