\* One person creates the entity and two edit it, one of them with a new picture and
\* the other through the external interface.  Transactions take just over the
\* millisecond by which the x-Last-Modified header rounds up; there are no pauses
\* between them, the hardest case for the optimistic lock.
CONSTANTS
    Creator = luoja
    Edits = {muokkaaja1, muokkaaja2}
    TilaChanges = {}
    WithImage = {muokkaaja1}
    External = {muokkaaja2}
    NoImage = NoImage
    Retries = 1
    MinTx = 1001
    FoldStart = 0
    FoldLength = 0
    ClientLags = {0}
    TickSizes = {}
    MaxNow = 0
    MaxCrashes = 1
SPECIFICATION Spec
INVARIANTS TypeOK NoLostUpdate NoFalseConflict ImageStored UploadKeptUntilSaved CommitsAudited IndexLagExplained
PROPERTIES LastModifiedGrows KeepsPromise
CHECK_DEADLOCK FALSE
