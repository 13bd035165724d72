SPECIFICATION Spec
CONSTANTS
    leaf = leaf
    middle = middle
    top = top
    root = root
    rimRoot = rimRoot
    strangerRoot = strangerRoot
    garbled = garbled
    fw1 = fw1
    fw2 = fw2
    none = none
    Certs <- MCCerts
    Garbled = garbled
    Signs <- MCSigns
    DeviceRoot = root
    RimRoot = rimRoot
    Firmware = {fw1, fw2}
    NoFwid = none
    Fwid <- MCFwid
    MaxChainLength = 4
    Sources <- MCSources
INVARIANTS
    TypeOK
    AcceptedIsAnchored
PROPERTIES
    WellMadePasses
    VerificationEnds
