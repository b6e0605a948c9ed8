CONSTANTS
    None = None
    Behaviors <- MCBehaviors
    Shared <- MCShared
    Plan <- MCPlan
SPECIFICATION Spec
PROPERTIES
    StartsAtTheItem
