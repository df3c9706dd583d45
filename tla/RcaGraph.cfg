CONSTANTS
  m = m
  t = t
  None = None
  Id = {m, t}
  Role <- MCRole
  RoleOf <- MCRoleOf
  MaxCalls = 8
  MaxAttempts = 3
SPECIFICATION FairSpec
INVARIANTS TypeOK StepsTellThePath FindingsStayInRole ApprovedIsGrounded AnsweredOnce BudgetSuffices
PROPERTIES AttemptEnds KeepsPromise
CHECK_DEADLOCK FALSE
