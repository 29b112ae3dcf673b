SPECIFICATION Spec
CONSTANTS
    Sources <- Src
    Binaries <- Bin
    SourceOf <- BuiltFrom
    Requests <- SmallRequests
    Machines <- SmallMachines
    MaxOthers = 1
    Editors = {e1, e2}
    Given = {"v"}
    Modes = {"on", "ON"}
    Lower <- Low
    Used = {"ua_apt_http_proxy", "global_apt_http_proxy", "http_proxy", "lxd_guest_attach"}
    MaxMishaps = 1
    Priors = {2701, 2712, 2713, 2800, 3100, 3400}
    MaxCuts = 1
    Repos <- Archives
    EsmRepos = {"esm-infra"}
    Pinned = {"ros"}
    Url <- OwnUrl
    Snapshot <- SnapshotUrls
    Key <- Keyring
    Within <- Within2
    Contracted <- SomeContracts
    MaxTrouble = 1
    Feeds <- SmallFeeds
    LastTick = 3
    Month = 2
    MaxHitches = 1
    Offers <- SmallOffers
    EnableOrder <- SmallOrder
    Clashes <- SmallClashes
    Requires <- SmallRequires
    Subscriptions <- SmallSubscriptions
    Platforms <- SmallPlatforms
    MaxUpsets = 1
SYMMETRY EitherEditor
INVARIANTS
    ReportIsTrue
    SettingsInForce
    UpgradeKeeps
    AptFilesSound
    NewsSound
    CommandsAsAgreed
PROPERTIES
    NothingUnasked
CHECK_DEADLOCK FALSE
