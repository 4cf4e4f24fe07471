\* Two channels: partial packets, and levels that change while a store copies them.
CONSTANTS
    c1 = c1
    c2 = c2
    ap = ap
    sta = sta
    Clients = {c1}
    Tasks = {ap}
    HeardBy <- OneOnAp
    Savers = {"autosave", "httpd"}
    NumUniverses = 1
    NumChannels = 2
    Levels <- OffOn
    NoClient = NoClient
    NoSaver = NoSaver
    NoFrame = NoFrame
SPECIFICATION Spec
INVARIANTS MoverIsShown SnapshotIsStored SavedBeforeRestart
