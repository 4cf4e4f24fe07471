\* Two controllers on two networks against the reset button: the merge.
CONSTANTS
    c1 = c1
    c2 = c2
    ap = ap
    sta = sta
    Clients = {c1, c2}
    Tasks = {ap, sta}
    HeardBy <- OneEach
    Savers = {"reset_button"}
    NumUniverses = 1
    NumChannels = 1
    Levels <- OffOn
    NoClient = NoClient
    NoSaver = NoSaver
    NoFrame = NoFrame
SPECIFICATION Spec
INVARIANTS TypeOK MoverIsShown
PROPERTY MergesLatest
