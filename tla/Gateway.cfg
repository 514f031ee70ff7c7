SPECIFICATION GatewaySpec
CONSTANTS
    c1 = c1
    u1 = u1
    g1 = g1
    None = None
    CliSavers <- OneCli
    UiSavers <- OneUi
    Gateways <- OneGateway
    Primary = g1
    MaxReceipts = 1
    MaxFaults = 1
    MaxFrames = 5
INVARIANTS
    LoadedMeansServed
    QuiescentAgreement
    NeverHalfOpen
PROPERTIES
    ReceiptNeverRewritten
    RequestIsServed
    FramesPipe
    EndTogether
CHECK_DEADLOCK FALSE
