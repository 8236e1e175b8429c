\* Three stages, two of them outdated in any order, one failure or death.
CONSTANTS
  NumStages = 3
  Histories <- ThreeStageHistories
  MaxOutdates = 2
  MaxTrouble = 1
SPECIFICATION FairSpec
INVARIANTS OutdatedIsRebuilt MasterAgrees RestorePointKept
PROPERTIES BuildsOnPredecessors BuildEnds
