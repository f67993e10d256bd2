\* Two devices, a monitor socket that holds two events, two threads of the
\* Configuration Manager.
SPECIFICATION Spec
CONSTANTS
    Devices = {d1, d2}
    QueueLimit = 2
    Threads = {t1, t2}
    NoEvent = noEvent
INVARIANTS ViewMatchesWorld ContextOutlivesCallbacks NothingLeaked
PROPERTIES DepartureReported DropReturnsOnceQuiet ImplementsSubscription
CHECK_DEADLOCK FALSE
