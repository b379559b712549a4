CONSTANTS
    MediaRanges <- MCMediaRanges
    LanguageTags <- MCLanguageTags
    Dates <- MCDates
    QWeight <- MCQWeight
    ObjectMembers <- MCMembers
    MaxHeader = 60
    Unreserved <- MCUnreserved
    LowerCase <- MCLowerCase
    Routes <- MCRoutes
    Assets <- MCAssets
    Requests <- MCRequests
    AnySubdomain = AnySubdomain
    NoSubdomain = NoSubdomain
    NoHost = NoHost
    BadHost = BadHost
    UnparsableHost = UnparsableHost
    NoURL = NoURL
    Broken = Broken
SPECIFICATION Spec
CHECK_DEADLOCK FALSE
INVARIANTS
    ServedIffConfigured
    EntriesStandAlone
