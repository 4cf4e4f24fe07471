\* One channel, on or off: a blackout reaches the wire.
CONSTANTS
    NumChannels = 1
    Levels <- OffOn
    Used = {"dmx_in", "artnet", "effects"}
SPECIFICATION FairSpec
INVARIANT HighestTakesPrecedence
PROPERTY BlackoutReachesTheWire
