SPECIFICATION Spec
CONSTANTS
    BaudRates <- TwoRates
    SupportedRates <- OneRate
    Parities <- AllParities
    StopBitValues <- OneStopOnly
    FlowControls <- AllFlowControls
INVARIANT SoftwareFlowApplied
