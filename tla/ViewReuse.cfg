\* A slot that is handed on between two view updates.
CONSTANTS
  Slot = {1}
  Cap = 1
  MaxGen = 2
SPECIFICATION FairViewSpec
PROPERTY DepartedIsRemoved
