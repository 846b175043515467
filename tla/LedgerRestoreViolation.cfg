SPECIFICATION Spec
CONSTANTS
    ann = ann  bob = bob  success = success  failure = failure
    red = red  blue = blue  redTag = redTag  blueTag = blueTag
    None = None  NoOne = NoOne  Analysis = Analysis
    Authors = {ann, bob}
    Outcomes = {success, failure}
    Findings = {red}
    Tag <- TagOf
    Runs = {1}
    Judges = {1}
    Actor <- ActorOf
    MaxContributions = 4
    MaxUnattributed = 3
INVARIANTS
    LegacyLabelsRestored
