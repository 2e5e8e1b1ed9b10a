SPECIFICATION Spec
CONSTANTS
  DefaultContextWindow = 4
  MaxInt = 2
  Models <- SomeModels
  Listed = 2
  Catalogues <- SomeCatalogues
  DefaultID <- BuiltIn
  OwnID <- Mine
  OwnVersions <- AllOwnVersions
  Tags <- AllTags
INVARIANTS FallbackIsCurrent MetadataFillsGaps ExitTellsRelease
\* The program has ended.
CHECK_DEADLOCK FALSE
