---------------------------- MODULE MC_CurlGlobal ----------------------------
EXTENDS CurlGlobal

CONSTANTS r1, r2

MCRequests == {r1, r2}

\* Zero (the "timeout=0" of old libcurl), a value below the 10 ms floor,
\* and an ordinary one.
MCCurlTimeouts == {0, 5, 200}
==============================================================================
