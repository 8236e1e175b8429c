\* A split that makes one part or none beside All, a stage outdated once, two incidents.
SPECIFICATION FairSpec
CONSTANTS
  All = all
  Parts = {lib}
  Lib = lib
  MaxOutdates = 1
  MaxTrouble = 2
INVARIANTS PublishedWithParts ChosenInstallable
PROPERTIES NeededAppears
