\* The composition keeps the write-ahead promise, appends never cut short.
CONSTANTS
  stock = stock
  patched = patched
  Zero = Zero
  Junk = Junk
  Noise = Noise
  Absent = Absent
  NoImage = NoImage
  NoEntry = NoEntry
  NoToken = NoToken
  Blocks <- MCBlocks
  Partitions <- MCPartitions
  Overrides <- MCOverrides
  Factory <- MCFactory
  Sources <- MCSources
  Passes <- MCPasses
  Backups <- MCBackups
  Roundtrip <- MCRoundtrip
  CanTear = FALSE
  MaxOps = 2
SPECIFICATION PSpec
PROPERTIES ImplementsPromise
