\* Every table, image, payload and message of the small sets.
CONSTANTS
  Nothing = Nothing
  Small = 2
  Long = 8
  Gap = 1
  MinPage = 2
  MaxPage = 4
  FixedPage = 4
  MinHeader = 3
  HeaderOf <- MCHeaderOf
  Block = 2
  Radix = 16
  Digits = 2
  Entries <- MCEntries
  Disks <- MCDisks
  Headers <- MCHeaders
  Lengths <- MCLengths
  Payloads <- MCPayloads
  Messages <- MCMessages
SPECIFICATION FSpec
INVARIANTS SourcesAgree CutTableOnlyLoses NeverTheWrongSlot SectionsApart ExtractsWhatItSays CutMessageOnlyLoses
CHECK_DEADLOCK FALSE
