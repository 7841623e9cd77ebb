\* Every entry of the console, two mutation calls under way at once, one loss.
SPECIFICATION FairSpec
CONSTANTS
  Views <- ConsoleQuerySet
  Mutations <- ConsoleMutationSet
  Lags <- ConsoleLags
  Writers = {w1, w2}
  MaxWrites = 2
  MaxLosses = 1
INVARIANTS
  IInv
  ReadYourWrites
PROPERTIES
  CopyMovesForward
  WritesReachTheScreen
