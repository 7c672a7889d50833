SPECIFICATION Spec
CONSTANTS
    c1 = c1  c2 = c2  t1 = t1  t2 = t2  t3 = t3
    Self = Self
    None = None
    Clients <- MCClients
    Tasks <- MCTasks
    MaxPolls = 2
INVARIANTS TypeOK WaitLeavesAtMostCurrent 
PROPERTIES ImplementsExecutor NoTaskStuck DestructorReturns
CHECK_DEADLOCK FALSE
