\* Two goroutines that dispatch, two handlers, a channel for one event; two
\* workers that renew the session.
SPECIFICATION WatcherSpec
CONSTANTS
    Loop = {l1, l2}
    H = 2
    BufferSize = 1
    MaxEvents = 2
    Caller = {c1, c2}
    MaxSession = 2
INVARIANTS
    WatcherTypeOK
    NothingLost
    OneSession
PROPERTIES
    KeepsDelivery
    StopComesBack
    EventsReachHandlers
    SessionRenewed
CHECK_DEADLOCK FALSE
