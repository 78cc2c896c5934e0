\* Two tablets, processes of any number of stages, updates, restarts and failures.
CONSTANTS
  Tablets = {t1, t2}
  Slots = {a, b}
  MaxBackups = 2
  MaxPlugs = 2
  MaxUpdates = 1
  None = None
SPECIFICATION WSpec
SYMMETRY MCSymmetry
INVARIANTS BackupKnowsItsTablet SlotIsTrue
PROPERTIES AppliesWhereItBelongs
