SPECIFICATION Spec
CONSTANTS
  Users <- MCUsers
  Rates = {r1}
  MbSize = 2
  Retries = 2
  MaxOut = 1
  Faults = {"answer"}
  Shell = {"PARAMGET"}
PROPERTY ConfigApplied
