SPECIFICATION JoinSpec
CONSTANTS
    MaxJoins = 1
    PathFlags <- DocumentedPath
    Requests <- NamedRequests
INVARIANT
    GivenPathServes
