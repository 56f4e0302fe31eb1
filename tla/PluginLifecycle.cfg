SPECIFICATION Spec
CONSTANTS
  iw3 = iw3
  t4 = t4
  dashboard = dashboard
  noExe = noExe
  s1 = s1
  s2 = s2
  s3 = s3
  loader = loader
  Builds <- MCBuilds
  Others <- MCOthers
  NoExe = noExe
  Site <- MCSite
  Maps <- MCMaps
  Hooks <- MCHooks
  Relative <- MCRelative
  LoaderSite = loader
  LoaderRelative = 1
  PoolUnits = 8
INVARIANTS
  TrampolinesIntact
  PoolWithinBuffer
  PatchesUndoable
  NothingDanglesWhenUnloaded
PROPERTIES
  TerminationReleasesTitle
  ImplementsTitlePatches
