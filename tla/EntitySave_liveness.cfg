\* A creator, an edit with a new picture through the external interface, and a bulk
\* tila change race for the row, without a retry to hide behind and with a stretch of
\* local time that repeats: every request is answered and what was saved is indexed.
CONSTANTS
    Creator = luoja
    Edits = {muokkaaja}
    TilaChanges = {massamuutos}
    WithImage = {muokkaaja}
    External = {muokkaaja}
    NoImage = NoImage
    Retries = 0
    MinTx = 1001
    FoldStart = 1400
    FoldLength = 1000
    ClientLags = {0}
    TickSizes = {400}
    MaxNow = 400
    MaxCrashes = 0
SPECIFICATION FairSpec
PROPERTIES EveryRequestAnswered SavedIsIndexed
CHECK_DEADLOCK FALSE
