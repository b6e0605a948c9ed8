CONSTANTS
    None = None
    Behaviors <- MCBehaviors
    Shared <- MCShared
    Plan <- MCPlan
SPECIFICATION Spec
INVARIANTS
    TypeOK
    GoalsAreInHand
    StopIsOver
PROPERTIES
    CommandsReturn
