\* Rooting and rescue with updates, and firmware and files of another model.
CONSTANTS
  Foreign = Foreign
  Spoilt = Spoilt
  None = None
  Torn = Torn
  Builds <- MCBuilds
  Files <- MCFiles
  Releases <- MCReleases
  MaxBackups = 1
SPECIFICATION RSpec
INVARIANTS RTypeOK
PROPERTIES  OneSlotStarts
