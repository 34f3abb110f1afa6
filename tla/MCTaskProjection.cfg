SPECIFICATION Spec
CONSTANTS
  t1 = t1  t2 = t2  f1 = f1  f2 = f2  p1 = p1  r1 = r1  r2 = r2
  Tasks = {t1, t2}
  Flows = {f1}
  Procs = {p1}
  TaskProc <- OneProcessTasks
  FlowProc <- OneProcessFlows
  Responses = {r1}
  ExchangePhases = {"awaiting_tool", "terminal"}
  MaxInstances = 2
  MaxTransitions = 3
  MaxPerSegment = 2
SYMMETRY Symmetric
INVARIANTS
  TypeOK
  PhasesFollow
  AttemptsCounted
  ResponseOnce
  ExitSettles
