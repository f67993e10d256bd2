\* Three kinds of timeout: none, below a millisecond, and one that is kept;
\* 9 ms stands for a timeout that saturates to u32::MAX milliseconds.
SPECIFICATION Spec
CONSTANTS
    Timeouts = {0, 500, 2000, 9000}
    MaxMillis = 7
    MaxBytes = 2
    MaxEvents = 3
INVARIANTS ReturnsClean OkCountsBytes
PROPERTIES CompletionInTimeReported TimeoutEndsTransfer
