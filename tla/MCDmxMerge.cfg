\* Two channels, fed by the DMX input and by Art-Net: the merge rule, the LEDs.
CONSTANTS
    NumChannels = 2
    Levels <- OffOn
    Used = {"dmx_in", "artnet"}
SPECIFICATION Spec
INVARIANTS TypeOK HighestTakesPrecedence LedsAgree
