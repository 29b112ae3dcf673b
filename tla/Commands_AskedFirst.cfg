SPECIFICATION CmdSpec
CONSTANTS
    Offers <- SmallOffers
    EnableOrder <- SmallOrder
    Clashes <- SmallClashes
    Requires <- SmallRequires
    Subscriptions <- SmallSubscriptions
    Platforms <- SmallPlatforms
    MaxUpsets = 1
INVARIANTS
    AskedFirst
