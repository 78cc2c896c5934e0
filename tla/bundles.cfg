\* Backups and stock firmware, filled again and again, ending anywhere.
CONSTANTS
  None = None
  Torn = Torn
  Spoilt = Spoilt
  Formats <- MCFormats
  Incremental = Incremental
  Names <- MCNames
  Offers <- MCOffers
  MaxVersion = 2
  MaxMoments = 3
  Md5 = TRUE
SPECIFICATION BSpec
INVARIANTS IntactMeansOneRun PackageIsWhole
PROPERTIES AppearsComplete RestoresOneMoment
