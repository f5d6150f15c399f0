SPECIFICATION JoinSpec
CONSTANTS
    MaxJoins = 3
    PathFlags <- AnyPath
    Requests <- NamedRequests
INVARIANTS
    JoinTypeOK
    ConfigIsRegistered
    KeysCoverConfig
    RegisteredPairMatches
    JoinedMeansInstalled
    DefaultPathServes
PROPERTY
    RestartedAgentIsJoined
