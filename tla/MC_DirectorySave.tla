--------------------------- MODULE MC_DirectorySave ---------------------------
EXTENDS DirectorySave

CONSTANTS a, b, s1, p1, dev, inarchive, container

MCNames == {a, b}
MCSongs == {s1}
MCPlaylists == {p1}
MCMtimes == {0, 1}
\* 0, an ordinary device number, and a container.
MCDevices == {0, dev, container}
=============================================================================
