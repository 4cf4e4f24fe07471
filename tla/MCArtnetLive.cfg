\* Two savers that compete for the NVS lock must not starve each other.
CONSTANTS
    c1 = c1
    c2 = c2
    ap = ap
    sta = sta
    Clients = {c1}
    Tasks = {ap}
    HeardBy <- OneOnAp
    Savers = {"autosave", "httpd"}
    NumUniverses = 1
    NumChannels = 1
    Levels <- OffOn
    NoClient = NoClient
    NoSaver = NoSaver
    NoFrame = NoFrame
SPECIFICATION FairSpec
PROPERTIES DirtyIsSnapshotted JobsFinish
