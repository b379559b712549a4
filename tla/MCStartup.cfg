SPECIFICATION Spec
SYMMETRY Symmetry
CONSTANTS
    p1 = p1  p2 = p2  store = store  v = v  version = version
    Processes = {p1, p2}
    Shared = store
    Stores = {p1, p2, store}
    Namespaces = {"setup", "app"}
    SetupNamespace = "setup"
    BaseUrlKey = "current-base-url"
    VersionKey = "current-server-version"
    Version = version
    AppKeys = {"current-base-url"}
    AppValues = {v}
    Keys <- MCKeys
    Values <- MCValues
    base64 <- MCBase64
    Longer <- MCLonger
    Garbled = "garbled"
    PathOf <- MCPathOf
    UrlOf <- MCUrlOf
    Numeric = {"5"}
    LogLevels = {"info", "debug"}
    Ports = {"3000", "8080"}
    Launches <- MCLaunches
    ConfigFiles <- MCConfigFiles
    Queues = {"mail"}
    Tasks = {"seed"}
    NoValue = NoValue
    NoNamespace = NoNamespace
    NoReply = NoReply
    NoJob = NoJob
    NoLaunch = NoLaunch
    NoParams = NoParams
    NoVariables = NoVariables
INVARIANTS TypeOK DropLeavesOnlyLater MoveIsAnnounced CommandLineDecides
PROPERTY MapsSpec
