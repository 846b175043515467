SPECIFICATION OneAspectSpec
CONSTANTS
    ann = ann  bob = bob  success = success  failure = failure
    red = red  blue = blue  redTag = redTag  blueTag = blueTag
    None = None  NoOne = NoOne  Analysis = Analysis
    Authors = {ann, bob}
    Outcomes = {success, failure}
    Findings = {red}
    Tag <- TagOf
    Runs = {1, 2, 3, 4}
    Judges = {3, 4}
    Actor <- ActorOf
    MaxContributions = 7
    MaxUnattributed = 3
INVARIANTS
    TypeOK
    OwnedValuesShown
    ShownIsResolved
    DerivedFollowsSource
    WithdrawalExact
    LatestRunShown
PROPERTIES
    HistoryKept
