SPECIFICATION Spec
CONSTANTS
  c1 = c1
  c2 = c2
  c3 = c3
  Caller <- MCCaller
  Pool = pool
  None = none
  Own = own
  Other = other
  DeleteInClose = FALSE
  MaxEvictions = 2
SYMMETRY MCSymmetry
CHECK_DEADLOCK FALSE
INVARIANTS TypeOK OneInstance NoForeignSuccess RestartReplaces DeletedStaysDown NobodyStuck NoCaseLeftOut
