SPECIFICATION Spec
CONSTANTS
  Package = {"core", "react", "hub"}
  Built = {"core", "react"}
  DependsOn <- MCDependsOn
  Prepack <- MCPrepack
  Lists <- MCLists
  MaxVersion = 2
  MaxEdits = 1
  MaxRuns = 3
  MaxKills = 1
  QuietTree = TRUE
INVARIANTS DependenciesFirst SmokeTriedTheUploads
CHECK_DEADLOCK FALSE
