\* Three threads that share one device.
SPECIFICATION Spec
CONSTANTS
    Threads = {t1, t2, t3}
    First = t1
    Nobody = nobody
INVARIANT OneUserOfOpenDevice
PROPERTIES PoisonIsFinal PoisonReleasesWaiters
CHECK_DEADLOCK FALSE
