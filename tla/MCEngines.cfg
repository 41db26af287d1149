SPECIFICATION Spec
CONSTANTS
    a1 = a1
    a2 = a2
    Auditors = {a1, a2}
    None = None
    LockedProjects = {"/app"}
    Entries <- MCEntries
    Texts <- MCTexts
    Compiled <- MCCompiled
    Installed <- MCInstalled
    Lock <- MCLock
    Store <- MCStore
    Vulns <- MCVulns
    Advisory <- MCAdvisory
    Ghsa = {"GHSA-1", "GHSA-2"}
    Withdrawn = {"PYSEC-0"}
    NpmAdvisories <- MCNpmAdvisories
    BatchSize = 2
    Workers = 2
    MaxFaults = 2
    MaxExpired = 1
    MaxAborts = 1
INVARIANT RunsWhatWasNamed
INVARIANT FindingsAreComplete
INVARIANT FailuresAreForgotten
CHECK_DEADLOCK FALSE
