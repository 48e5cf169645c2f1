CONSTANTS
  m1 = m1
  m2 = m2
  Processes = {m1, m2}
  Versions = {"v1", "v2"}
  Known <- MCKnown
  Order <- MCOrder
  Payload <- MCPayload
  DirOf <- MCDirOf
  Nothing = "nothing"
  Foreign = "foreign"
  Inodes = {1, 2, 3, 4, 5, 6, 7, 8, 9, 10, 11, 12}
  MaxEdits = 1
  MaxFaults = 2
SPECIFICATION Spec
PROPERTIES
  AllOrNothing
  OthersAreSafe
  TornIsLeftAlone
CHECK_DEADLOCK FALSE
