CONSTANTS
    Capabilities = {c1}
    MaxVersion = 1
    MaxTime = 1
    MaxGeneration = 2
    Insufficient = {3}
    Runtimes <- MCRuntimes
    MaxAge = 1
    MaxSkew = 0
    Delays = {0}
    Lags = {0}
    MaxIncidents = 1
    MaxRequests = 4
    Artifacts <- MCArtifacts
    Duties <- MCDuties
SPECIFICATION Spec
INVARIANTS
    DeletedMeansClosed
PROPERTIES
    ProfileStaysSound
    HistoryKept
    ProviderWithheld
    AdmittedAsShown
CHECK_DEADLOCK FALSE
