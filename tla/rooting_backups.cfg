\* One build, several backup directories: what plans and backups promise.
CONSTANTS
  Foreign = Foreign
  Spoilt = Spoilt
  None = None
  Torn = Torn
  Builds = {1}
  Files <- MCFilesOfOne
  Releases = {1}
  MaxBackups = 2
SPECIFICATION RSpec
PROPERTIES SomethingToGoBackTo PlanStands
