SPECIFICATION Spec
CONSTANTS LastDay = 5
          RefreshDays = 2
INVARIANT JoinIsDirect
