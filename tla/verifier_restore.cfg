\* The verifier over images of every format, their flaws, and two references.
CONSTANTS
  Unknown = Unknown
  NoKernel = NoKernel
  NoTable = NoTable
  NotYet = NotYet
  k1 = k1
  k2 = k2
  one = one
  two = two
  Magisk <- MCMagisk
  OtherRoot <- MCOtherRoot
  Targets <- MCTargets
  Candidates <- MCCandidates
  Trusted <- MCTrusted
  Tables <- MCTables
  Bindings <- MCBindings
SPECIFICATION VSpec
INVARIANTS WhatWasThereGoesBack
CHECK_DEADLOCK FALSE
