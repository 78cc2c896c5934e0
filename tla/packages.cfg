\* Debloats, restores, an owner and a cable that gives out, in any order.
CONSTANTS
  Tier <- MCTier
  Protected <- MCProtected
  Others <- MCOthers
  NoJob = NoJob
SPECIFICATION KSpec
INVARIANTS ProtectedStay
PROPERTIES RestoreAllUndoesTiers CommandsEnd
