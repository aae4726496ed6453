SPECIFICATION Spec
CONSTANTS
    linked = linked
    gone = gone
    alias = alias
    Missing = Missing
    Native = native
    Architectures = {native, foreign}
    X32 = 4
    Socket = 1
    Socketpair = 2
    IoUringSetup = 3
    Host = "git"
    OtherHost = "other"
    MaxLines = 3
    MaxRequest = 4
    LineSizes = {1, 3}
    Written <- MCWritten
    Resolve <- MCResolve
    Project <- MCProject
    DataDir <- MCDataDir
    RuntimeDir <- MCRuntimeDir
    CredentialFile <- Secret
    Exe <- MCExe
    Agent <- MCAgent
    Keychains <- MCKeychains
    SystemRoots <- MCSystemRoots
    NetworkFiles <- MCNetworkFiles
    Temporary <- Home
    Executables <- MCExecutables
    Limit <- MCLimit
    Requested <- MCRequested
    Called <- MCCalled
    Words = {"a", "c", "s", "z"}
CHECK_DEADLOCK FALSE
INVARIANTS
    EnforcesPolicy
    ApprovedCommandRuns
    NetworkFollowsPolicy
    TokenOnlyForTheHost
