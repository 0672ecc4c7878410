\* A caller of the framework, a login flow and a Matrix event, three generations at most.
SPECIFICATION FairSpec
CONSTANTS
  Savers <- AllSavers
  Callers = {"c1"}
  Handlers = {"h1"}
  Login = "login"
  MaxGens = 3
  Worker <- WorkerOf
  MaxActs = 3
INVARIANTS
  ConnectionTypeOK
  OneGeneration
PROPERTIES
  RetiredIsSilent
  SavesInOrder
  StatesInOrder
  EveryCallReturns
CHECK_DEADLOCK FALSE
