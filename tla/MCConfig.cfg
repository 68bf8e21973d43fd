SPECIFICATION Spec
CONSTANTS
    BaudRates <- TwoRates
    SupportedRates <- OneRate
    Parities <- AllParities
    StopBitValues <- AllStopBits
    FlowControls <- AllFlowControls
INVARIANTS LineAsConfigured ParityAsConfigured OpenTellsOutcome ConfigInv
