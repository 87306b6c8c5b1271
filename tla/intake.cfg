SPECIFICATION FairSpec
CONSTANTS
  Alerts <- SomeAlerts
  AllowedTenants = {"tenant-a", "tenant-system"}
  Slots = {1, 2}
  MaxFaults = 2
  MaxKills = 1
  MaxSaves = 2
INVARIANTS AcceptedIsOnRecord RecordsAgree StraysAreExplained
PROPERTIES OthersKeepTheirs NativeAlertsArrive
CHECK_DEADLOCK FALSE
