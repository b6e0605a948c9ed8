CONSTANTS
    Requests <- MCRequests
    HoverModes <- MCHoverModes
    Nodes <- MCNodes
    Handlers <- MCHandlers
    Unserved <- MCUnserved
    Depth = 2
SPECIFICATION Spec
INVARIANTS
    TypeOK
    GrantHolds
PROPERTIES
    NegotiationsEnd
    BeliefsConverge
