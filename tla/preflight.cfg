\* A bootloader and the round-trip partition: preflight, the writes it authorises, rescues, and torn appends.
CONSTANTS
  stock = stock
  patched = patched
  Zero = Zero
  Junk = Junk
  Noise = Noise
  Absent = Absent
  NoImage = NoImage
  NoEntry = NoEntry
  NoToken = NoToken
  Blocks <- MCBlocks
  Partitions <- BootloaderPartitions
  Overrides <- MCOverrides
  Factory <- BootloaderFactory
  Sources <- MCSources
  Passes <- BootloaderPasses
  Backups <- MCBackups
  Roundtrip <- MCRoundtrip
  CanTear = TRUE
  MaxOps = 2
SPECIFICATION PSpec
INVARIANTS JournalExplainsDevice TokenMeansProven TokenMeansCleanJournal
PROPERTIES UnprovenTouchesRoundtripOnly
