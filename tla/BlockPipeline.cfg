SPECIFICATION FairSpec
CONSTANTS
    NumFiles = 2
    QueueSize = 1
    Workers = 2
    MaxRetries = 2
    BatchSize = 2
    Others = {o1}
    Kinds = {"archive", "file", "car"}
    Interrupts = {"timeout", "shutdown"}
INVARIANTS
    SuccessMeansStored
    FailedJobMeansError
    NoSendOnClosedChannel
PROPERTY
    Terminates
