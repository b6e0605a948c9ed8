CONSTANTS
    controller_available_modes_in <- MCIn
    controller_available_modes_out <- MCOut
    available_control_modes <- MCPlatform
    hoverMode <- MCHoverMode
    Requests <- MCRequests
    Kinds <- MCOneKind
SPECIFICATION Spec
INVARIANTS
    TypeOK
    EstablishedModeIsThePlatforms
    RefusedOrHovering
PROPERTIES
    HoverReferenceIsForHover
    CommandsFollowReferences
    ImplementsModeService
    RequestsAreAnswered
