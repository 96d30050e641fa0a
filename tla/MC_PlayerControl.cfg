CONSTANTS
    c1 = c1
    c2 = c2
    s1 = s1
    s2 = s2
    NoSong = NoSong
    Clients <- MCOneClient
    Songs <- MCSongs
    MaxOps = 6
    MaxEvents = 3
    CrossFades <- MCCrossFades
SPECIFICATION Spec
CHECK_DEADLOCK FALSE
INVARIANT TypeOK
INVARIANT PauseRequestHonoured
PROPERTY NextSongNeverReplaced
PROPERTY CommandsReturn
