\* One editor and one bulk tila change, whose header is the client's own clock.
CONSTANTS
    Creator = luoja
    Edits = {muokkaaja}
    TilaChanges = {massamuutos}
    WithImage = {}
    External = {}
    NoImage = NoImage
    Retries = 2
    MinTx = 1001
    FoldStart = 0
    FoldLength = 0
    ClientLags = {0}
    TickSizes = {400}
    MaxNow = 2000
    MaxCrashes = 0
SPECIFICATION Spec
INVARIANT NoLostUpdateByTilaChange
CHECK_DEADLOCK FALSE
