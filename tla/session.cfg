\* Every operation of the session, with appends that a death may cut short.
CONSTANTS
  stock = stock
  patched = patched
  foreign = foreign
  Zero = Zero
  Junk = Junk
  Noise = Noise
  Absent = Absent
  NoImage = NoImage
  NoEntry = NoEntry
  NoToken = NoToken
  Blocks <- MCBlocks
  Partitions <- MCPartitions
  Overrides <- MCOverrides
  Factory <- MCFactory
  Sources <- MCSources
  Passes <- MCPasses
  Backups <- MCBackups
  CanTear = TRUE
  MaxOps = 2
SPECIFICATION FairSpec
INVARIANTS TypeOK JournalExplainsDevice
PROPERTIES IntentsAreVouchedFor IntentBeforeBytes EarlierRecordsSurvive BytesNeedAuthority EveryIntentAnswered
