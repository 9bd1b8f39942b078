SPECIFICATION Spec
CONSTANTS
  Finds = {f1, f2, f3}
  Faults = {"short write", "directory sync"}
SYMMETRY Permuted
INVARIANTS
  DurableSurvives
PROPERTIES
  ArchivedWhenImported
CHECK_DEADLOCK TRUE
