--------------------------- MODULE MC_PlayerControl ---------------------------
EXTENDS PlayerControl

CONSTANTS c1, c2, s1, s2

\* MPD calls the facade from its main thread only.
MCOneClient == {c1}
MCSongs == {s1, s2}

\* A negative duration, which SetCrossFade() clamps, and a positive one.
MCCrossFades == {-1, 3}
================================================================================
