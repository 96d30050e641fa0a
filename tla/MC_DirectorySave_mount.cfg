CONSTANTS
    a = a
    b = b
    s1 = s1
    p1 = p1
    dev = dev
    inarchive = inarchive
    container = container
    Names <- MCNames
    Songs <- MCSongs
    Playlists <- MCPlaylists
    Mtimes <- MCMtimes
    Devices <- MCDevices
    DEVICE_INARCHIVE <- inarchive
    DEVICE_CONTAINER <- container
    MaxDepth = 2
    MaxDirs = 2

SPECIFICATION Spec

\* Loading ends, returning or throwing.
CHECK_DEADLOCK FALSE

INVARIANT
    SavedFileLoads
