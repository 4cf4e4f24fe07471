SPECIFICATION FairSpec
CONSTANTS
    Box <- MCBox
    Channels <- MCChannels
    EffectsOf <- MCEffects
    Faders <- MCFaders
    Full = 2
    Wrap = 64
    SyncPeriod = 1
    MaxGap = 1
    RecvSize = 1
    SyncSize = 1
    MaxPeers = 1
    NoLead = NoLead
INVARIANTS
    TypeOK
    InPhase
    FollowsALeader
    SeamlessLoop
PROPERTIES
    SyncHeals
