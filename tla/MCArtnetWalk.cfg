\* Two universes, walked by a clear or a reboot request.
CONSTANTS
    c1 = c1
    c2 = c2
    ap = ap
    sta = sta
    Clients = {c1}
    Tasks = {ap}
    HeardBy <- OneOnAp
    Savers = {"httpd"}
    NumUniverses = 2
    NumChannels = 1
    Levels <- OffOn
    NoClient = NoClient
    NoSaver = NoSaver
    NoFrame = NoFrame
SPECIFICATION Spec
INVARIANTS SnapshotIsStored SavedBeforeRestart
