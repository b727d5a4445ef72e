SPECIFICATION GitSpec
CONSTANTS
  Bundle <- MC_Bundle
  NoBundle = NoBundle
  MaxStops = 3
INVARIANTS BundlesAreWhole AnswersAgree
PROPERTY ImplementsManifestLedger
CHECK_DEADLOCK FALSE
