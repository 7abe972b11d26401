SPECIFICATION Spec
CONSTANTS
  Users <- MCUsers
  Rates = {r1, r2}
  MbSize = 1
  Retries = 2
  MaxOut = 2
  Faults = {"write"}
  Shell = {}
SYMMETRY Symmetry
INVARIANTS StatusCurrent ChipConfigured
