SPECIFICATION Spec
CONSTANTS
    v1 = v1
    v2 = v2
    v3 = v3
    poll = poll
    session = session
    update = update
    Pinned = v1
    NoVersion = NoVersion
    NoOne = NoOne
    Versions <- MCVersions
    Resolvers <- MCResolvers
    Updaters <- MCUpdaters
    Deletable <- MCPinned
INVARIANTS
    NeverHalfInstalled
    ResolvedRuns
PROPERTIES
    ImplementsManagedCli
    OnlySelectionMoves
    EnsureReturns
