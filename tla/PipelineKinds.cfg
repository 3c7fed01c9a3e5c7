SPECIFICATION FairSpec
CONSTANTS
  Worker = {w1, w2}
  Kind = {"deployment", "statefulset", "daemonset", "job", "pod"}
  Namespace = {"shop", "kube-system"}
  Listing <- MCListingKinds
  Report <- MCShop
  Status <- MCStatus
  Elsewhere = {"far", "cart"}
  Filtered = {"store"}
  Malformed = {"import"}
  Owned = {"web-1"}
  ModeOrphan = TRUE
  AgentEnabled = {TRUE, FALSE}
  Started <- MCStarted
  Preference = {"default", "spare"}
  DefaultPreferences = "default"
  UserPreferences = "spare"
  LazyLoad = 1
  MaxRetry = 0
  MaxReEvaluations = 1
INVARIANTS EagerAtMostLazyLoad SettledWhenQuiet ReportIsPrefix
PROPERTY LifecycleEnds
CHECK_DEADLOCK FALSE
