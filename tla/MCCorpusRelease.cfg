CONSTANTS
    Titles = {"nelm"}
    Pages = {"nelm"}
    Revisions = {1, 2}
    LicenseTexts = {"gfdl"}
    NoText = "none"
    NoRights = "none"
    Rights = {"gfdl12", "other"}
    AcceptedRights = {"gfdl12"}
    Maintainers = {m1, m2}
    MaxVersion = 2
    MaxCrashes = 1
    MaxCommands = 6
    PageOf <- OwnPage
    ReviewArguments <- SomeReviews
SPECIFICATION Spec
SYMMETRY Symmetric
INVARIANTS TypeOK LoadedIsReviewed LoadedIsReleased VersionNamesOneCorpus NoRevisionRewritten
CHECK_DEADLOCK FALSE
