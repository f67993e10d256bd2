\* One thread waits for the device, another aborts the pipe.
SPECIFICATION Spec
CONSTANTS
    Threads = {t1, t2}
    First = t1
    Nobody = nobody
PROPERTY AbortEndsPendingTransfer
CHECK_DEADLOCK FALSE
