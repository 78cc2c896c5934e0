\* Two tablets; one is swapped for the other between commands.
CONSTANTS
  Unknown = Unknown
  None = None
  t1 = t1
  t2 = t2
  Tablets <- MCTablets
  Reports <- MCReports
  Plans <- MCPlans
  Coverages <- MCCoverages
  Orders <- MCOrders
  SwapsMidway = FALSE
  MaxBackups = 2
  MaxCommands = 2
SPECIFICATION USpec
INVARIANTS NeverAnotherTablets
PROPERTIES NeverRestartsInDoubt StockIsKept
