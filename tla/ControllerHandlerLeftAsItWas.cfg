CONSTANTS
    controller_available_modes_in <- MCIn
    controller_available_modes_out <- MCOut
    available_control_modes <- MCPlatform
    hoverMode <- MCHoverMode
    Requests <- MCFewRequests
    Kinds <- MCOneKind
SPECIFICATION Spec
PROPERTIES
    LeftAsItWas
