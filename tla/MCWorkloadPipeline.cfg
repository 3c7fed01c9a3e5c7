SPECIFICATION Spec
CONSTANTS
  Worker = {w1, w2}
  Kind = {"deployment"}
  Namespace = {"shop", "data", "kube-system"}
  Listing <- MCListingThree
  Report <- NoReport
  Status <- MCStatus
  Elsewhere = {}
  Filtered = {}
  Malformed = {}
  Owned = {}
  ModeOrphan = FALSE
  AgentEnabled = {FALSE}
  Started = {{"deployment"}}
  Preference = {"default", "spare"}
  DefaultPreferences = "default"
  UserPreferences = "default"
  LazyLoad = 1
  MaxRetry = 1
  MaxReEvaluations = 1
INVARIANTS OneJobAtATime LastPreferencesWin PublishedWhenQuiet ResultsUseMetrics
PROPERTY ImplementsLifecycle
CHECK_DEADLOCK FALSE
