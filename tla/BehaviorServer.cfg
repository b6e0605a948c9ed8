CONSTANTS
    g1 = g1
    g2 = g2
    g3 = g3
    None = None
    Goals <- MCGoals
    MaxRuns = 2
SPECIFICATION Spec
INVARIANTS
    TypeOK
    NoOrphanGoal
PROPERTIES
    ImplementsLifecycle
    ImplementsSession
    GoalsEnd
