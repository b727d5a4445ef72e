\* One replica, two releases, the first with a migration, two changes of the manifest.
SPECIFICATION FairSpec
CONSTANTS
  o1 = o1
  Operator = {o1}
  MaxRelease = 2
  MaxVariant = 2
  MaxGeneration = 3
  LastProcess = 1
  RouteProcess = 1
  Migrating = {1}
INVARIANTS TrafficWasReady MigrationGate ReadyIsOfTheManifest
PROPERTIES ServedIsNotDeleted NothingIsLeft ManifestIsReached
