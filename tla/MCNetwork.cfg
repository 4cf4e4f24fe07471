SPECIFICATION Spec
CONSTANTS
    MaxRetry = 2
    MaxEvents = 2
    Addresses = {a1, a2}
    NoAddress = NoAddress
    MaxFds = 2
    NoSocket = NoSocket
    Unbound = Unbound
    Requests <- MCRequests
    About = {"station", "listener"}
    ApAddress = ap1
INVARIANTS TypeOK SettingsComplete EnabledHasNetwork BitsAgree KeepsTrying DescriptorsAccounted
PROPERTIES ComesUp Reconnects ArtnetServed
