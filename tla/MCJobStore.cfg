CONSTANTS
    Jobs = {j1}
    Workers = {w1, w2}
    NULL = NULL
    Name <- MCName
    MaxConcurrent <- MCMaxConcurrent
    MaxRetryCount = 2
    MaxTimeoutRetries = 1
    MaxProgress = 2
SPECIFICATION Spec
INVARIANTS OwnedIffActive StartedIsThisAttempt VerdictConsistent RequeueBudgets
PROPERTIES TerminalIsFinal ProgressMonotonic RequeueIsAudited ImplementsLifecycle
