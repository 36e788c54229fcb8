CONSTANTS
    orders = orders
    users = users
    Targets <- MCTargets
    NameOf <- MCNameOf
    PurgeAge = 1
    ServerOf <- MCServerOf
    DatabaseOf <- MCDatabaseOf
    TypeOf <- MCTypeOf
    Folded <- MCFolded
    Texts <- MCTexts
    Plain <- MCPlain
    FoundExactly <- MCFoundExactly
    FoundInAnyCase <- MCFoundInAnyCase
    FoundByLike <- MCFoundByLike
    Questions <- MCQuestions
    Visits <- MCVisits
    Sizes = {1, 2}
    Moments = {6, 7, 8}
    DayLength = 4
    DefaultPageSize = 1
    MaxPageSize = 2
    RecentCount = 2
    ErrorCount = 1
    MaxEdits = 4
SPECIFICATION Spec
INVARIANTS BrowsingMissesNothing PagesAreWhole ListingsAgree SummariesAgree
CHECK_DEADLOCK FALSE
