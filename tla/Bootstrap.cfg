SPECIFICATION Spec
CONSTANTS
  Ids = {"provider", "iyon"}
  Packages = {"a", "b"}
  Candidates <- TwoPackages
  ProviderId = "provider"
  AgentId = "iyon"
  AppId = "iyon"
  MaxOwned = 2
  MaxLate = 1
  MaxGeneration = 5
INVARIANTS LayersFollowOwners EverythingReleased
PROPERTIES ReturnedAppExits
