\* Two channels: is the output of the effects synchronized?
CONSTANTS
    NumChannels = 2
    Levels <- OffOn
    Used = {"artnet", "effects"}
SPECIFICATION Spec
INVARIANT EffectsAreWhole
