\* The proportions of the production defaults (30, 90 and 180 seconds) are kept in order, not
\* in size; the deadline leaves room for a whole ladder and for a second lane behind it.
\* A lane that is over stays over, so the system really stops.
SPECIFICATION Spec
CONSTANTS
  Serial = Serial
  Branches = {b1, b2}
  Primary = 2
  Fallback = 3
  Fast = 1
  Delays = {0, 1}
  Deadline = 8
  Windows <- SerialOrBeside
SYMMETRY Symmetry
INVARIANTS
  BudgetIsExact
  LadderIsKept
PROPERTIES
  CircuitGatesCalls
  TimeIsReserved
CHECK_DEADLOCK FALSE
